---- MODULE Spec2Model ----
(***************************************************************************)
(* labdb: the path-indexed directory / experiment store (database.py) and *)
(* the path helpers it uses (utils.py).                                   *)
(*                                                                         *)
(* A path string is a sequence of one-character strings, so that the      *)
(* string operations of the code (startswith, endswith, replace, split,   *)
(* lexicographic range comparison, regex matching) are computed and not   *)
(* assumed.                                                                *)
(***************************************************************************)
EXTENDS Integers, Sequences, FiniteSets, TLC

VARIABLES
    directories,   \* the "directories" collection: a set of documents
    experiments,   \* the "experiments" collection (the version sentinel aside)
    clock,         \* datetime.now(), read at every insert
    input,         \* the argument of a call of a pure helper
    output,        \* what the helper returned
    local_files,   \* the files under local_file_storage_path: name -> bytes
    gridfs,        \* the GridFS objects of the database: file_id -> bytes
    cache,         \* the files under local_cache_path: name -> bytes, atime
    pc,            \* where each client stands inside the call it is making
    version        \* the "version" field of the sentinel document, if any

storage == <<local_files, gridfs, cache, pc, version>>

vars == <<directories, experiments, clock, input, output, storage>>

\* input and output while no helper has been called
NoCall == [called |-> FALSE]

\* a mapping with no key: no file, no object, no client inside a call
Nothing == [k \in {} |-> 0]

\* __version__ of the running package
RunningVersion == <<"1", ".", "0">>

\* no payload stored, no client inside a call, the sentinel written by this
\* package
StorageIdle ==
    /\ local_files = Nothing
    /\ gridfs = Nothing
    /\ cache = Nothing
    /\ pc = Nothing
    /\ version = RunningVersion

(***************************************************************************)
(* Bounds of the model.                                                    *)
(***************************************************************************)
\* inserts (create_dir, create_experiment) performed in one behaviour
MaxClock == 3

\* the longest path string a move may produce (moving a directory below itself
\* lengthens its descendants' paths without end)
MaxPathLen == 6

\* the longest path string, and the longest segment list, the path helpers
\* are applied to
MaxStrLen == 4

MaxSegments == 2

MaxSegLen == 2

\* the latest time a file of the cache is stamped with
MaxTime == 4

(***************************************************************************)
(* Characters and strings.                                                 *)
(***************************************************************************)
\* ord() of the characters the model's strings are made of (ASCII)
CharCode ==
    [c \in {"*", "-", ".", "/", "0", "1", "2", "3", "4", "5", "\\", "a", "b", "c"} |->
        CASE c = "*" -> 42 [] c = "-" -> 45 [] c = "." -> 46 [] c = "/" -> 47
          [] c = "0" -> 48 [] c = "1" -> 49 [] c = "2" -> 50 [] c = "3" -> 51
          [] c = "4" -> 52 [] c = "5" -> 53 [] c = "\\" -> 92
          [] c = "a" -> 97 [] c = "b" -> 98 [] c = "c" -> 99]

Ord(c) == CharCode[c]

Chr(n) == CHOOSE c \in DOMAIN CharCode : CharCode[c] = n

\* s.startswith(pre)
StartsWith(s, pre) ==
    /\ Len(pre) <= Len(s)
    /\ \A i \in 1..Len(pre) : s[i] = pre[i]

\* s.endswith(suf)
EndsWith(s, suf) ==
    /\ Len(suf) <= Len(s)
    /\ \A i \in 1..Len(suf) : s[Len(s) - Len(suf) + i] = suf[i]

\* c in s
HasChar(s, c) == \E i \in 1..Len(s) : s[i] = c

\* s[:-n]
DropLast(s, n) == SubSeq(s, 1, Len(s) - n)

\* s < t, the binary (code point) order the document store compares strings by
StrLt(s, t) ==
    \E i \in 1..Len(t) :
        /\ \A j \in 1..(i - 1) : j <= Len(s) /\ s[j] = t[j]
        /\ \/ i > Len(s)
           \/ Ord(s[i]) < Ord(t[i])

StrLe(s, t) == s = t \/ StrLt(s, t)

\* the least index at which sub occurs in s, 0 when it does not: s.find(sub) + 1
FindSub(s, sub) ==
    LET hits == {i \in 1..(Len(s) - Len(sub) + 1) :
                    \A j \in 1..Len(sub) : s[i + j - 1] = sub[j]}
    IN  IF hits = {} THEN 0 ELSE CHOOSE i \in hits : \A k \in hits : i <= k

\* s.replace(old, new, 1)
ReplaceFirst(s, old, new) ==
    LET i == FindSub(s, old)
    IN  IF i = 0 THEN s
        ELSE SubSeq(s, 1, i - 1) \o new \o SubSeq(s, i + Len(old), Len(s))

\* str(n) for a natural number n
RECURSIVE IntToStr(_)
IntToStr(n) ==
    IF n < 10 THEN <<Chr(48 + n)>>
    ELSE IntToStr(n \div 10) \o <<Chr(48 + (n % 10))>>

IsDigit(c) == c \in {"0", "1", "2", "3", "4", "5", "6", "7", "8", "9"}

IsNumeric(s) == s # <<>> /\ \A i \in 1..Len(s) : IsDigit(s[i])

RECURSIVE StrToInt(_)
StrToInt(s) ==
    IF s = <<>> THEN 0
    ELSE 10 * StrToInt(DropLast(s, 1)) + (Ord(s[Len(s)]) - Ord("0"))

(***************************************************************************)
(* utils.py: the path helpers.                                             *)
(***************************************************************************)
ALLOWED_PATH_CHARS ==
    {"a", "b", "c", "d", "e", "f", "g", "h", "i", "j", "k", "l", "m",
     "n", "o", "p", "q", "r", "s", "t", "u", "v", "w", "x", "y", "z",
     "A", "B", "C", "D", "E", "F", "G", "H", "I", "J", "K", "L", "M",
     "N", "O", "P", "Q", "R", "S", "T", "U", "V", "W", "X", "Y", "Z",
     "0", "1", "2", "3", "4", "5", "6", "7", "8", "9",
     ".", "-", "_", "/", "*", "$", "(", ")"}

\* split_path raises (ValueError): no leading slash, a wildcard that is not
\* the trailing "/*", or a character outside the allow-list
SplitPathRaises(path) ==
    \/ ~StartsWith(path, <<"/">>)
    \/ HasChar(path, "*") /\ ~EndsWith(path, <<"/", "*">>)
    \/ \E i \in 1..Len(path) : path[i] \notin ALLOWED_PATH_CHARS

\* path.split("/") with the empty segments filtered out
RECURSIVE SplitSegs(_, _, _)
SplitSegs(s, cur, acc) ==
    IF s = <<>> THEN (IF cur = <<>> THEN acc ELSE Append(acc, cur))
    ELSE IF Head(s) = "/"
         THEN SplitSegs(Tail(s), <<>>, IF cur = <<>> THEN acc ELSE Append(acc, cur))
         ELSE SplitSegs(Tail(s), Append(cur, Head(s)), acc)

\* split_path(path), where it does not raise
split_path(path) == SplitSegs(path, <<>>, <<>>)

\* join_path raises on a list of segments
JoinPathRaises(segs) ==
    \/ \E i \in 1..Len(segs) : segs[i] = <<>>
    \/ \E i \in 1..Len(segs) :
          HasChar(segs[i], "*") /\ (i # Len(segs) \/ segs[i] # <<"*">>)
    \/ \E i \in 1..Len(segs) : \E k \in 1..Len(segs[i]) :
          segs[i][k] # "*" /\ segs[i][k] \notin ALLOWED_PATH_CHARS

\* "/".join(segs)
RECURSIVE JoinSegs(_)
JoinSegs(segs) ==
    IF segs = <<>> THEN <<>>
    ELSE IF Len(segs) = 1 THEN segs[1]
    ELSE segs[1] \o <<"/">> \o JoinSegs(Tail(segs))

\* join_path(segs), where it does not raise
join_path(segs) == <<"/">> \o JoinSegs(segs)

\* validate_path raises on a string path
ValidatePathRaises(path) ==
    \/ SplitPathRaises(path)
    \/ JoinPathRaises(split_path(path))
    \/ join_path(split_path(path)) # path
    \/ HasChar(path, "*") /\ ~EndsWith(path, <<"/", "*">>)

\* get_path_name(path), where split_path does not raise
get_path_name(path) ==
    LET segs == split_path(path)
    IN  IF segs = <<>> THEN <<>> ELSE segs[Len(segs)]

\* get_parent_path(path), where split_path does not raise
get_parent_path(path) ==
    IF path = <<"/">> THEN <<"/">>
    ELSE LET segs == split_path(path)
         IN  IF Len(segs) <= 1 THEN <<"/">>
             ELSE join_path(SubSeq(segs, 1, Len(segs) - 1))

\* the characters escape_regex_path puts a backslash before
RegexSpecialChars ==
    {".", "^", "$", "*", "+", "?", "(", ")", "[", "]", "{", "}", "|", "\\", "-"}

RECURSIVE escape_regex_path(_)
escape_regex_path(path) ==
    IF path = <<>> THEN <<>>
    ELSE (IF Head(path) \in RegexSpecialChars
          THEN <<"\\", Head(path)>> ELSE <<Head(path)>>)
         \o escape_regex_path(Tail(path))

\* pat, as the document store's regex engine reads it, matches a prefix of s:
\* the set of remainders of s (empty when it does not match). A backslash makes
\* the next character literal, an unescaped "." matches any character, anything
\* else matches itself (the patterns built here hold no other unescaped
\* metacharacter).
RECURSIVE RegexPrefix(_, _)
RegexPrefix(pat, s) ==
    IF pat = <<>> THEN {s}
    ELSE IF Head(pat) = "\\" /\ Len(pat) >= 2
         THEN (IF s # <<>> /\ Head(s) = pat[2]
               THEN RegexPrefix(SubSeq(pat, 3, Len(pat)), Tail(s)) ELSE {})
    ELSE IF Head(pat) = "."
         THEN (IF s # <<>> THEN RegexPrefix(Tail(pat), Tail(s)) ELSE {})
    ELSE (IF s # <<>> /\ Head(s) = Head(pat)
          THEN RegexPrefix(Tail(pat), Tail(s)) ELSE {})

\* s matches f"^{escaped_parent_path}[^/]+$"
RegexChildMatch(escaped_parent_path, s) ==
    \E rest \in RegexPrefix(escaped_parent_path, s) :
        rest # <<>> /\ ~HasChar(rest, "/")

(***************************************************************************)
(* database.py: the documents and the queries.                             *)
(***************************************************************************)
\* A dict (notes, data) is the set of its <<key, value>> items; {} is the
\* default of the notes and data parameters.
EmptyDict == {}

\* d with d[key] = value: what "$set" of the dotted field does to the embedded dict
DictSet(d, key, value) == {kv \in d : kv[1] # key} \cup {<<key, value>>}

\* serialize_obj(obj) on a scalar (no array, dict or list): the object itself
serialize_obj(obj) == obj

DirDoc(now, path, notes) ==
    [id |-> now, type |-> "directory", path_str |-> path,
     notes |-> notes, created_at |-> now]

ExpDoc(now, path, notes, data) ==
    [id |-> now, type |-> "experiment", path_str |-> path,
     created_at |-> now, data |-> data, notes |-> notes]

\* the outcome of a call: the collections after it, "ok" or the error it
\* raised, and what it returned
Outcome(D, E, res, ret) == [D |-> D, E |-> E, res |-> res, ret |-> ret]

Raise(D, E, err) == Outcome(D, E, err, <<>>)

dir_exists(D, path) ==
    IF path = <<"/">> THEN TRUE
    ELSE \E d \in D : d.path_str = path

path_exists(D, E, path) ==
    IF path = <<"/">> THEN TRUE
    ELSE \/ \E d \in D : d.path_str = path
         \/ \E e \in E : e.path_str = path

\* the direct-children query without the trailing slash added to the parent
ChildQueryNoSlash(path, s) ==
    RegexChildMatch(escape_regex_path(path), s)

\* the direct-children query of list_dir, count_experiments and get_experiments
ChildQuery(path, s) ==
    LET parent_path == IF EndsWith(path, <<"/">>) THEN path ELSE path \o <<"/">>
    IN  RegexChildMatch(escape_regex_path(parent_path), s)

\* the prefix query with the range taken from the path itself, no slash added
PrefixQueryNoSlash(path, s) ==
    IF path = <<"/">> THEN TRUE
    ELSE LET end_prefix == DropLast(path, 1) \o <<Chr(Ord(path[Len(path)]) + 1)>>
         IN  \/ s = path
             \/ StrLe(path, s) /\ StrLt(s, end_prefix)

\* _build_path_prefix_query(path), as a predicate on path_str
PrefixQuery(path, s) ==
    IF path = <<"/">> THEN TRUE
    ELSE LET prefix == IF EndsWith(path, <<"/">>) THEN path ELSE path \o <<"/">>
             end_prefix == DropLast(prefix, 1) \o <<Chr(Ord(prefix[Len(prefix)]) + 1)>>
         IN  \/ s = path
             \/ StrLe(prefix, s) /\ StrLt(s, end_prefix)

\* cursor.sort("created_at", 1): oldest first
RECURSIVE SortAsc(_)
SortAsc(S) ==
    IF S = {} THEN <<>>
    ELSE LET m == CHOOSE d \in S : \A e \in S : d.created_at <= e.created_at
         IN  <<m>> \o SortAsc(S \ {m})

\* cursor.sort("created_at", -1) over the documents of S
RECURSIVE SortDesc(_)
SortDesc(S) ==
    IF S = {} THEN <<>>
    ELSE LET m == CHOOSE d \in S : \A e \in S : e.created_at <= d.created_at
         IN  <<m>> \o SortDesc(S \ {m})

count_experiments(E, path) ==
    Cardinality({e \in E : ChildQuery(path, e.path_str)})

list_dir(D, E, path) ==
    IF ~dir_exists(D, path) THEN Raise(D, E, "NotFoundError")
    ELSE LET dir_results == SortDesc({d \in D : ChildQuery(path, d.path_str)})
             exp_results == SortDesc({e \in E : ChildQuery(path, e.path_str)})
         IN  Outcome(D, E, "ok", dir_results \o exp_results)

(***************************************************************************)
(* database.py: the operations that write.  Every raise of the code is a   *)
(* plain Exception; the outcome names it by the condition that raised:     *)
(* "already exists" is ConflictError, "does not exist" is NotFoundError, a  *)
(* ValueError of the path helpers or a wildcard misuse is PathError.        *)
(***************************************************************************)
create_dir(D, E, now, path, notes) ==
    IF ValidatePathRaises(path) THEN Raise(D, E, "PathError")
    ELSE IF path_exists(D, E, path) THEN Raise(D, E, "ConflictError")
    ELSE IF path = <<"/">> THEN Raise(D, E, "ConflictError")
    ELSE IF ~dir_exists(D, get_parent_path(path)) THEN Raise(D, E, "NotFoundError")
    ELSE Outcome(D \cup {DirDoc(now, path, notes)}, E, "ok", path)

\* name = <<>> stands for a name that is None or empty (both are falsy)
create_experiment(D, E, now, path, name, data, notes) ==
    IF ~dir_exists(D, path) THEN Raise(D, E, "NotFoundError")
    ELSE LET experiment_id ==
                 IF name # <<>> THEN name ELSE IntToStr(count_experiments(E, path))
             experiment_path ==
                 IF path # <<"/">> THEN path \o <<"/">> \o experiment_id
                 ELSE <<"/">> \o experiment_id
         IN  IF name # <<>> /\ path_exists(D, E, experiment_path)
             THEN Raise(D, E, "ConflictError")
             ELSE IF SplitPathRaises(experiment_path) THEN Raise(D, E, "PathError")
             ELSE Outcome(D, E \cup {ExpDoc(now, experiment_path, notes,
                                             {<<kv[1], serialize_obj(kv[2])>> : kv \in data})},
                          "ok", <<experiment_path, experiment_id>>)

\* ensure_path_exists(path) raises
EnsurePathExistsRaises(D, E, path) == ~path_exists(D, E, path)

\* experiments.update_one({"path_str": path}, {"$set": ...}): every possible
\* result.  One matching document is updated (which one, when several match,
\* is the store's choice); none matching, nothing is.
\* set[e] is the document e after the "$set".
update_one(E, path, set) ==
    LET matching == {e \in E : e.path_str = path}
    IN  IF matching = {} THEN {E}
        ELSE {(E \ {e}) \cup {set[e]} : e \in matching}

update_experiment_notes(D, E, path, notes) ==
    IF EnsurePathExistsRaises(D, E, path) THEN {Raise(D, E, "NotFoundError")}
    ELSE LET set == [e \in E |-> [e EXCEPT !.notes = notes]]
         IN  {Outcome(D, E2, "ok", <<>>) : E2 \in update_one(E, path, set)}

add_experiment_data(D, E, path, key, value) ==
    IF EnsurePathExistsRaises(D, E, path) THEN {Raise(D, E, "NotFoundError")}
    ELSE LET set == [e \in E |->
                        [e EXCEPT !.data = DictSet(e.data, key, serialize_obj(value))]]
         IN  {Outcome(D, E2, "ok", <<>>) : E2 \in update_one(E, path, set)}

add_experiment_note(D, E, path, key, value) ==
    IF EnsurePathExistsRaises(D, E, path) THEN {Raise(D, E, "NotFoundError")}
    ELSE LET set == [e \in E |-> [e EXCEPT !.notes = DictSet(e.notes, key, value)]]
         IN  {Outcome(D, E2, "ok", <<>>) : E2 \in update_one(E, path, set)}

\* delete(path): the wildcard form deletes the listed children one call each.
\* (cleanup_array_files releases external payloads only; the experiments of
\* this specification hold none.)
RECURSIVE delete(_, _, _)
RECURSIVE DeleteItems(_, _, _)
\* the loop over the listed children left after its first iteration
DeleteItemsFirstOnly(D, E, items) ==
    IF items = <<>> THEN Outcome(D, E, "ok", <<>>)
    ELSE delete(D, E, Head(items).path_str)

DeleteItems(D, E, items) ==
    IF items = <<>> THEN Outcome(D, E, "ok", <<>>)
    ELSE LET r == delete(D, E, Head(items).path_str)
         IN  IF r.res # "ok" THEN r ELSE DeleteItems(r.D, r.E, Tail(items))

delete(D, E, path) ==
    IF EndsWith(path, <<"/", "*">>)
    THEN IF HasChar(DropLast(path, 2), "*") THEN Raise(D, E, "PathError")
         ELSE LET dir_path == DropLast(path, 2)
              IN  IF ~dir_exists(D, dir_path) THEN Raise(D, E, "NotFoundError")
                  ELSE LET items == list_dir(D, E, dir_path)
                       IN  IF items.res # "ok" THEN items
                           ELSE DeleteItems(D, E, items.ret)
    ELSE Outcome({d \in D : ~PrefixQuery(path, d.path_str)},
                 {e \in E : ~PrefixQuery(path, e.path_str)}, "ok", <<>>)

\* _update_paths(collection, query, src_path, dest_path): every possible result.
\* The cursor's order is the store's: when split_path raises for one of the
\* matched documents, those visited before it (any of the others) are already
\* rewritten.  (The matched documents fit the cursor's first batch, so a
\* rewritten document is not visited again.)
update_paths(C, src_path, dest_path) ==
    LET matched == {d \in C : PrefixQuery(src_path, d.path_str)}
        new_path_str(d) == ReplaceFirst(d.path_str, src_path, dest_path)
        bad == {d \in matched : SplitPathRaises(new_path_str(d))}
        Rewrite(U) ==
            (C \ U) \cup {[d EXCEPT !.path_str = new_path_str(d)] : d \in U}
    IN  IF bad = {} THEN {[C |-> Rewrite(matched), res |-> "ok"]}
        ELSE {[C |-> Rewrite(U), res |-> "PathError"] : U \in SUBSET (matched \ bad)}

\* move(src_path, dest_path): every possible outcome.  Moving the root raises
\* "Cannot move the root directory": RootError.
RECURSIVE move(_, _, _, _)
RECURSIVE MoveItems(_, _, _, _)
MoveItems(D, E, items, dest_path) ==
    IF items = <<>> THEN {Outcome(D, E, "ok", <<>>)}
    ELSE LET item_path == Head(items).path_str
             dest_item_path == dest_path \o <<"/">> \o get_path_name(item_path)
         IN  IF SplitPathRaises(item_path) THEN {Raise(D, E, "PathError")}
             ELSE UNION {IF r.res # "ok" THEN {r}
                         ELSE MoveItems(r.D, r.E, Tail(items), dest_path) :
                         r \in move(D, E, item_path, dest_item_path)}

move(D, E, src_path, dest_path) ==
    IF src_path = <<"/">> THEN {Raise(D, E, "RootError")}
    ELSE IF EndsWith(src_path, <<"/", "*">>)
    THEN IF HasChar(DropLast(src_path, 2), "*") THEN {Raise(D, E, "PathError")}
         ELSE LET src_dir_path == DropLast(src_path, 2)
              IN  IF ~dir_exists(D, src_dir_path) THEN {Raise(D, E, "NotFoundError")}
                  ELSE IF ~dir_exists(D, dest_path) THEN {Raise(D, E, "NotFoundError")}
                  ELSE LET items == list_dir(D, E, src_dir_path)
                       IN  IF items.res # "ok" THEN {items}
                           ELSE MoveItems(D, E, items.ret, dest_path)
    ELSE UNION {IF rd.res # "ok" THEN {Outcome(rd.C, E, rd.res, <<>>)}
                ELSE {Outcome(rd.C, re.C, re.res, <<>>) :
                        re \in update_paths(E, src_path, dest_path)} :
                rd \in update_paths(D, src_path, dest_path)}

(***************************************************************************)
(* database.py: the dry runs.  delete(path, dry_run=True) and              *)
(* move(src_path, dest_path, dry_run=True) are the same functions on their *)
(* dry_run branches; the outcome carries the collections as the calls made *)
(* leave them, and the counts returned.                                    *)
(***************************************************************************)
\* _get_collection_counts(dir_query, exp_query) with the prefix query of path
get_collection_counts(D, E, path) ==
    [directories |-> Cardinality({d \in D : PrefixQuery(path, d.path_str)}),
     experiments |-> Cardinality({e \in E : PrefixQuery(path, e.path_str)})]

ZeroCounts == [experiments |-> 0, directories |-> 0]

AddCounts(c1, c2) ==
    [experiments |-> c1.experiments + c2.experiments,
     directories |-> c1.directories + c2.directories]

RECURSIVE delete_dry_run(_, _, _)
RECURSIVE DeleteItemsDryRun(_, _, _, _)
\* the loop of the wildcard dry run with the recursive call made without
\* dry_run=True
DeleteItemsDryRunDropped(D, E, items, affected_counts) ==
    IF items = <<>> THEN Outcome(D, E, "ok", affected_counts)
    ELSE LET r == delete(D, E, Head(items).path_str)
         IN  IF r.res # "ok" THEN r
             ELSE DeleteItemsDryRun(r.D, r.E, Tail(items), affected_counts)

DeleteItemsDryRun(D, E, items, affected_counts) ==
    IF items = <<>> THEN Outcome(D, E, "ok", affected_counts)
    ELSE LET r == delete_dry_run(D, E, Head(items).path_str)
         IN  IF r.res # "ok" THEN r
             ELSE DeleteItemsDryRun(r.D, r.E, Tail(items),
                                    AddCounts(affected_counts, r.ret))

delete_dry_run(D, E, path) ==
    IF EndsWith(path, <<"/", "*">>)
    THEN IF HasChar(DropLast(path, 2), "*") THEN Raise(D, E, "PathError")
         ELSE LET dir_path == DropLast(path, 2)
              IN  IF ~dir_exists(D, dir_path) THEN Raise(D, E, "NotFoundError")
                  ELSE LET items == list_dir(D, E, dir_path)
                       IN  IF items.res # "ok" THEN items
                           ELSE DeleteItemsDryRun(D, E, items.ret, ZeroCounts)
    ELSE Outcome(D, E, "ok", get_collection_counts(D, E, path))

RECURSIVE move_dry_run(_, _, _, _)
RECURSIVE MoveItemsDryRun(_, _, _, _, _)
MoveItemsDryRun(D, E, items, dest_path, affected_counts) ==
    IF items = <<>> THEN Outcome(D, E, "ok", affected_counts)
    ELSE LET item_path == Head(items).path_str
             dest_item_path == dest_path \o <<"/">> \o get_path_name(item_path)
         IN  IF SplitPathRaises(item_path) THEN Raise(D, E, "PathError")
             ELSE LET r == move_dry_run(D, E, item_path, dest_item_path)
                  IN  IF r.res # "ok" THEN r
                      ELSE MoveItemsDryRun(r.D, r.E, Tail(items), dest_path,
                                           AddCounts(affected_counts, r.ret))

move_dry_run(D, E, src_path, dest_path) ==
    IF src_path = <<"/">> THEN Raise(D, E, "RootError")
    ELSE IF EndsWith(src_path, <<"/", "*">>)
    THEN IF HasChar(DropLast(src_path, 2), "*") THEN Raise(D, E, "PathError")
         ELSE LET src_dir_path == DropLast(src_path, 2)
              IN  IF ~dir_exists(D, src_dir_path) THEN Raise(D, E, "NotFoundError")
                  ELSE IF ~dir_exists(D, dest_path) THEN Raise(D, E, "NotFoundError")
                  ELSE LET items == list_dir(D, E, src_dir_path)
                       IN  IF items.res # "ok" THEN items
                           ELSE MoveItemsDryRun(D, E, items.ret, dest_path, ZeroCounts)
    ELSE Outcome(D, E, "ok", get_collection_counts(D, E, src_path))

(***************************************************************************)
(* database.py: delete and move cut short by a failure of the store.  The  *)
(* store is atomic per document only: delete_many and the update_one loop  *)
(* of _update_paths may have written any part of the matched documents     *)
(* when the failure is raised.  Each operator below is the set of the      *)
(* stores [D, E] an interrupted call may leave.                            *)
(***************************************************************************)
Store(D, E) == [D |-> D, E |-> E]

\* collection.delete_many(query), interrupted: any part of the matched
\* documents is gone
DeleteManyInterrupted(C, path) ==
    {C \ U : U \in SUBSET {d \in C : PrefixQuery(path, d.path_str)}}

\* _update_paths, interrupted: any part of the matched documents that
\* split_path accepts is rewritten
UpdatePathsInterrupted(C, src_path, dest_path) ==
    LET matched == {d \in C : PrefixQuery(src_path, d.path_str)}
        new_path_str(d) == ReplaceFirst(d.path_str, src_path, dest_path)
        good == {d \in matched : ~SplitPathRaises(new_path_str(d))}
    IN  {(C \ U) \cup {[d EXCEPT !.path_str = new_path_str(d)] : d \in U} :
            U \in SUBSET good}

RECURSIVE delete_interrupted(_, _, _)
RECURSIVE DeleteItemsInterrupted(_, _, _)
\* the failure falls in the delete of the first child, or of a later one
\* after the first was deleted
DeleteItemsInterrupted(D, E, items) ==
    IF items = <<>> THEN {}
    ELSE LET r == delete(D, E, Head(items).path_str)
         IN  delete_interrupted(D, E, Head(items).path_str)
                 \cup (IF r.res # "ok" THEN {}
                       ELSE DeleteItemsInterrupted(r.D, r.E, Tail(items)))

\* experiments.delete_many comes first, directories.delete_many second
delete_interrupted(D, E, path) ==
    IF EndsWith(path, <<"/", "*">>)
    THEN IF HasChar(DropLast(path, 2), "*") \/ ~dir_exists(D, DropLast(path, 2))
         THEN {}
         ELSE DeleteItemsInterrupted(D, E, list_dir(D, E, DropLast(path, 2)).ret)
    ELSE {Store(D, E2) : E2 \in DeleteManyInterrupted(E, path)}
             \cup {Store(D2, {e \in E : ~PrefixQuery(path, e.path_str)}) :
                     D2 \in DeleteManyInterrupted(D, path)}

RECURSIVE move_interrupted(_, _, _, _)
RECURSIVE MoveItemsInterrupted(_, _, _, _)
MoveItemsInterrupted(D, E, items, dest_path) ==
    IF items = <<>> THEN {}
    ELSE LET item_path == Head(items).path_str
             dest_item_path == dest_path \o <<"/">> \o get_path_name(item_path)
         IN  IF SplitPathRaises(item_path) THEN {}
             ELSE move_interrupted(D, E, item_path, dest_item_path)
                      \cup UNION {IF r.res # "ok" THEN {}
                                  ELSE MoveItemsInterrupted(r.D, r.E, Tail(items),
                                                            dest_path) :
                                  r \in move(D, E, item_path, dest_item_path)}

\* the directories are rewritten first, the experiments second
move_interrupted(D, E, src_path, dest_path) ==
    IF src_path = <<"/">> THEN {}
    ELSE IF EndsWith(src_path, <<"/", "*">>)
    THEN IF \/ HasChar(DropLast(src_path, 2), "*")
            \/ ~dir_exists(D, DropLast(src_path, 2))
            \/ ~dir_exists(D, dest_path)
         THEN {}
         ELSE MoveItemsInterrupted(D, E, list_dir(D, E, DropLast(src_path, 2)).ret,
                                   dest_path)
    ELSE {Store(D2, E) : D2 \in UpdatePathsInterrupted(D, src_path, dest_path)}
             \cup UNION {IF rd.res # "ok" THEN {}
                         ELSE {Store(rd.C, E2) :
                                 E2 \in UpdatePathsInterrupted(E, src_path, dest_path)} :
                         rd \in update_paths(D, src_path, dest_path)}

(***************************************************************************)
(* database.py: get_experiments.  A query is a function from its keys to   *)
(* conditions: [t |-> "path", s |-> p] and [t |-> "val", v |-> x] are      *)
(* plain values, [t |-> "dict", ops |-> f] a dict of operators, and        *)
(* [t |-> "list", l |-> qs] a list of queries (the value of "$or").        *)
(***************************************************************************)
EmptyQuery == [k \in {} |-> 0]

\* the store's evaluation of one operator of a dict on path_str
OpHolds(op, arg, s) ==
    CASE op = "$regex" -> RegexChildMatch(arg, s)
      [] op = "$ne"    -> TRUE
      [] op = "$in"    -> s \in arg
      [] op = "$gte"   -> StrLe(arg, s)
      [] op = "$lt"    -> StrLt(s, arg)

\* the store's evaluation of a query on the document e
RECURSIVE Matches(_, _)
Matches(q, e) ==
    \A k \in DOMAIN q :
        CASE k = "$or" -> \E i \in 1..Len(q[k].l) : Matches(q[k].l[i], e)
          [] k = "path_str" ->
                IF q[k].t = "path" THEN e.path_str = q[k].s
                ELSE \A op \in DOMAIN q[k].ops : OpHolds(op, q[k].ops[op], e.path_str)
          [] OTHER -> \E kv \in e.notes : k = "notes." \o kv[1] /\ kv[2] = q[k].v

\* merge_mongo_queries(base_query, additional_query); no query here has "$expr"
merge_mongo_queries(base_query, additional_query) ==
    IF additional_query = EmptyQuery THEN base_query
    ELSE [key \in DOMAIN base_query \cup DOMAIN additional_query |->
            IF key \notin DOMAIN additional_query THEN base_query[key]
            ELSE IF key \notin DOMAIN base_query THEN additional_query[key]
            ELSE IF base_query[key].t = "dict" /\ additional_query[key].t = "dict"
                 THEN [t |-> "dict",
                       ops |-> [op \in DOMAIN base_query[key].ops
                                         \cup DOMAIN additional_query[key].ops |->
                                  IF op \in DOMAIN additional_query[key].ops
                                  THEN additional_query[key].ops[op]
                                  ELSE base_query[key].ops[op]]]
            ELSE IF base_query[key].t = "list" /\ additional_query[key].t = "list"
                 THEN [t |-> "list", l |-> base_query[key].l \o additional_query[key].l]
            ELSE additional_query[key]]

\* _build_path_prefix_query(path), as the query document
build_path_prefix_query(path) ==
    IF path = <<"/">> THEN [k \in {"path_str"} |-> [t |-> "dict", ops |-> [o \in {"$ne"} |-> <<>>]]]
    ELSE LET prefix == IF EndsWith(path, <<"/">>) THEN path ELSE path \o <<"/">>
             end_prefix == DropLast(prefix, 1) \o <<Chr(Ord(prefix[Len(prefix)]) + 1)>>
         IN  [k \in {"$or"} |->
                [t |-> "list",
                 l |-> << [j \in {"path_str"} |-> [t |-> "path", s |-> path]],
                          [j \in {"path_str"} |->
                              [t |-> "dict",
                               ops |-> [o \in {"$gte", "$lt"} |->
                                          IF o = "$gte" THEN prefix ELSE end_prefix]]] >>]]

\* the direct-children query of get_experiments, as the query document
children_query(path) ==
    LET parent_path == IF EndsWith(path, <<"/">>) THEN path ELSE path \o <<"/">>
    IN  [k \in {"path_str"} |->
            [t |-> "dict", ops |-> [o \in {"$regex"} |-> escape_regex_path(parent_path)]]]

\* deserialize_obj(obj) on a scalar: the object itself
deserialize_obj(obj) == obj

\* the returned form of an experiment: its data field deserialized
Fetched(e) == [e EXCEPT !.data = {<<kv[1], deserialize_obj(kv[2])>> : kv \in e.data}]

\* get_experiments(path, recursive, query, limit=limit) with no sort and no
\* projection: every possible outcome, the returned experiments as a set (the
\* order is the store's).  limit = 0 stands for None; find_one returns any one
\* of the documents with the path, and a limited cursor any limit of the matches.
get_experiments(D, E, path, recursive, query, limit) ==
    IF \E e \in E : e.path_str = path
    THEN {Outcome(D, E, "ok", {Fetched(e)}) : e \in {x \in E : x.path_str = path}}
    ELSE IF ~dir_exists(D, path) THEN {Raise(D, E, "NotFoundError")}
    ELSE LET base_query == IF recursive THEN build_path_prefix_query(path)
                           ELSE children_query(path)
             final_query == merge_mongo_queries(base_query, query)
             found == {e \in E : Matches(final_query, e)}
         IN  IF limit = 0 \/ Cardinality(found) <= limit
             THEN {Outcome(D, E, "ok", {Fetched(e) : e \in found})}
             ELSE {Outcome(D, E, "ok", {Fetched(e) : e \in part}) :
                     part \in {x \in SUBSET found : Cardinality(x) = limit}}

(***************************************************************************)
(* api.py: ExperimentQuery._expand_paths.                                  *)
(***************************************************************************)
\* s.find(sub, start) + 1 for the 1-based position start; 0 when not found
FindFrom(s, sub, start) ==
    LET hits == {i \in start..(Len(s) - Len(sub) + 1) :
                    \A j \in 1..Len(sub) : s[i + j - 1] = sub[j]}
    IN  IF hits = {} THEN 0 ELSE CHOOSE i \in hits : \A k \in hits : i <= k

\* s.split(c)
RECURSIVE Split(_, _)
Split(s, c) ==
    LET i == FindSub(s, <<c>>)
    IN  IF i = 0 THEN <<s>>
        ELSE <<SubSeq(s, 1, i - 1)>> \o Split(SubSeq(s, i + 1, Len(s)), c)

\* s.strip() of blanks
RECURSIVE Strip(_)
Strip(s) ==
    IF s # <<>> /\ Head(s) = " " THEN Strip(Tail(s))
    ELSE IF s # <<>> /\ s[Len(s)] = " " THEN Strip(DropLast(s, 1))
    ELSE s

\* int(s) raises ValueError; the strings here hold no sign and no underscore
IntRaises(s) == ~IsNumeric(Strip(s))

\* int(s), where it does not raise
int(s) == StrToInt(Strip(s))

\* "$(" in path and ")" in path
HasPlaceholder(path) == FindSub(path, <<"$", "(">>) # 0 /\ HasChar(path, ")")

RECURSIVE expand_paths(_)
RECURSIVE ExpandRangeExclusive(_, _, _, _)
RECURSIVE ExpandRange(_, _, _, _)

\* the loop without its last value: "for i in range(start_val, end_val)"
ExpandRangeExclusive(base_path, suffix, i, end_val) ==
    IF i >= end_val THEN <<>>
    ELSE LET expanded_path == base_path \o IntToStr(i) \o suffix
         IN  (IF HasPlaceholder(expanded_path) THEN expand_paths(<<expanded_path>>)
              ELSE <<expanded_path>>)
             \o ExpandRangeExclusive(base_path, suffix, i + 1, end_val)

\* the loop "for i in range(start_val, end_val + 1)" from i on
ExpandRange(base_path, suffix, i, end_val) ==
    IF i > end_val THEN <<>>
    ELSE LET expanded_path == base_path \o IntToStr(i) \o suffix
         IN  (IF HasPlaceholder(expanded_path) THEN expand_paths(<<expanded_path>>)
              ELSE <<expanded_path>>)
             \o ExpandRange(base_path, suffix, i + 1, end_val)

\* what one path of the list adds to the result
ExpandPath(path) ==
    LET start_idx == FindSub(path, <<"$", "(">>)
        end_idx == FindFrom(path, <<")">>, start_idx)
        range_expr == SubSeq(path, start_idx + 2, end_idx - 1)
        parts == Split(range_expr, "-")
    IN  IF /\ HasPlaceholder(path)
           /\ end_idx > start_idx
           /\ HasChar(range_expr, "-")
           /\ Len(parts) = 2
           /\ ~IntRaises(parts[1])
           /\ ~IntRaises(parts[2])
        THEN ExpandRange(SubSeq(path, 1, start_idx - 1),
                         SubSeq(path, end_idx + 1, Len(path)),
                         int(parts[1]), int(parts[2]))
        ELSE <<path>>

\* _expand_paths(paths)
expand_paths(paths) ==
    IF paths = <<>> THEN <<>>
    ELSE ExpandPath(Head(paths)) \o expand_paths(Tail(paths))

(***************************************************************************)
(* utils.py: resolve_path; api.py: _normalize_path, get_experiments_in_list*)
(***************************************************************************)
\* s.rstrip("/")
RECURSIVE RStripSlash(_)
RStripSlash(s) ==
    IF s # <<>> /\ s[Len(s)] = "/" THEN RStripSlash(DropLast(s, 1)) ELSE s

\* the trailing slashes resolve_path removes from either argument
TrimPath(p) == IF EndsWith(p, <<"/">>) /\ p # <<"/">> THEN RStripSlash(p) ELSE p

\* the loop over target_segments: "..", "." and plain segments
RECURSIVE ResolveSegments(_, _)
ResolveSegments(result_segments, target_segments) ==
    IF target_segments = <<>> THEN result_segments
    ELSE LET segment == Head(target_segments)
         IN  IF segment = <<".", ".">>
             THEN ResolveSegments(IF result_segments # <<>>
                                  THEN DropLast(result_segments, 1)
                                  ELSE result_segments,
                                  Tail(target_segments))
             ELSE IF segment = <<".">>
             THEN ResolveSegments(result_segments, Tail(target_segments))
             ELSE ResolveSegments(Append(result_segments, segment), Tail(target_segments))

\* resolve_path raises ValueError
ResolvePathRaises(current_path, target_path) ==
    LET target == TrimPath(target_path)
        current == TrimPath(current_path)
        target_segments == SplitSegs(target, <<>>, <<>>)
    IN  IF StartsWith(target, <<"/">>)
        THEN SplitPathRaises(target) \/ JoinPathRaises(split_path(target))
        ELSE \/ SplitPathRaises(current)
             \/ \E i \in 1..Len(target_segments) :
                   /\ HasChar(target_segments[i], "*")
                   /\ (i # Len(target_segments) \/ target_segments[i] # <<"*">>)
             \/ \E i \in 1..Len(target_segments) :
                   /\ target_segments[i] \notin {<<".", ".">>, <<".">>}
                   /\ \E k \in 1..Len(target_segments[i]) :
                         target_segments[i][k] \notin ALLOWED_PATH_CHARS
             \/ JoinPathRaises(ResolveSegments(split_path(current), target_segments))

\* resolve_path(current_path, target_path), where it does not raise
resolve_path(current_path, target_path) ==
    LET target == TrimPath(target_path)
        current == TrimPath(current_path)
    IN  IF StartsWith(target, <<"/">>) THEN join_path(split_path(target))
        ELSE join_path(ResolveSegments(split_path(current), SplitSegs(target, <<>>, <<>>)))

\* get_current_path() with no current path configured
get_current_path == <<"/">>

\* _normalize_path(path) of a string path
normalize_path(path) == resolve_path(get_current_path, path)

\* get_experiments_in_list(paths) with no sort and no projection
get_experiments_in_list(D, E, paths) ==
    LET paths_expanded == expand_paths(paths)
    IN  IF \E i \in 1..Len(paths_expanded) :
               ResolvePathRaises(get_current_path, paths_expanded[i])
        THEN {Raise(D, E, "PathError")}
        ELSE LET paths_normalized ==
                     [i \in 1..Len(paths_expanded) |-> normalize_path(paths_expanded[i])]
                 query == [k \in {"path_str"} |->
                             [t |-> "dict",
                              ops |-> [o \in {"$in"} |-> {paths_normalized[i] :
                                                           i \in 1..Len(paths_normalized)}]]]
             IN  get_experiments(D, E, <<"/">>, TRUE, query, 0)

(***************************************************************************)
(* serialization.py: the local cache.  Bytes are a sequence of blocks; a   *)
(* file of the cache directory is [data |-> bytes, atime |-> time], keyed  *)
(* by str(file_id).  The payload of a file_id never changes, so the bytes  *)
(* written under a file_id are always CachedBytes(file_id).                *)
(***************************************************************************)
\* int(config["local_cache_max_size_mb"]) * 1024 * 1024, in blocks
max_size == 3

\* the file_ids the cache is called with, and the length of their payloads
FileIds == {1, 2, 3}

CachedBytes(file_id) == IF file_id = 1 THEN <<file_id>> ELSE <<file_id, file_id>>

\* sum of stat.st_size over the files of the cache directory
RECURSIVE TotalSize(_)
TotalSize(C) ==
    IF DOMAIN C = {} THEN 0
    ELSE LET f == CHOOSE x \in DOMAIN C : TRUE
         IN  Len(C[f].data) + TotalSize([x \in DOMAIN C \ {f} |-> C[x]])

\* (atime, path) tuples in the order files.sort() puts them
RECURSIVE SortFiles(_)
SortFiles(files) ==
    IF files = {} THEN <<>>
    ELSE LET first == CHOOSE x \in files : \A y \in files :
                          x[1] < y[1] \/ (x[1] = y[1] /\ x[2] <= y[2])
         IN  <<first>> \o SortFiles(files \ {first})

\* files.remove(selected)
Remove(files, selected) ==
    LET i == CHOOSE k \in 1..Len(files) : files[k] = selected
    IN  SubSeq(files, 1, i - 1) \o SubSeq(files, i + 1, Len(files))

\* a client outside every call, with what its last call returned
Idle(ret) == [at |-> "idle", file_id |-> 0, files |-> <<>>, total_size |-> 0, ret |-> ret]

NoReturn == [kind |-> "none", data |-> <<>>]

At(c, at, file_id) ==
    [pc EXCEPT ![c] = [at |-> at, file_id |-> file_id, files |-> <<>>,
                       total_size |-> 0, ret |-> NoReturn]]

\* the time a system call stamps a file with: the clock may or may not have
\* ticked since the last stamp
Stamps == {clock, clock + 1} \cap 0..MaxTime

\* _save_to_cache, first step: open(cache_path, "wb") creates the file empty
\* or truncates it; a write leaves the access time of an existing file alone
SaveOpen(c, file_id) ==
    /\ pc[c].at = "idle"
    /\ \E t \in Stamps :
          /\ clock' = t
          /\ cache' = [f \in DOMAIN cache \cup {file_id} |->
                          IF f = file_id
                          THEN [data |-> <<>>,
                                atime |-> IF file_id \in DOMAIN cache
                                          THEN cache[file_id].atime ELSE t]
                          ELSE cache[f]]
    /\ pc' = At(c, "write", file_id)
    /\ UNCHANGED <<directories, experiments, input, output, local_files, gridfs, version>>

\* f.write(data) and the close: the bytes reach the file in one piece or in
\* two; a file removed meanwhile is written to without being brought back
SaveWrite(c) ==
    /\ pc[c].at = "write"
    /\ LET file_id == pc[c].file_id
           data == CachedBytes(file_id)
       IN  IF file_id \notin DOMAIN cache
           THEN cache' = cache /\ pc' = At(c, "manage", file_id)
           ELSE \E n \in (Len(cache[file_id].data) + 1)..Len(data) :
                   /\ cache' = [cache EXCEPT ![file_id].data = SubSeq(data, 1, n)]
                   /\ pc' = At(c, IF n = Len(data) THEN "manage" ELSE "write", file_id)
    /\ UNCHANGED <<directories, experiments, clock, input, output, local_files, gridfs, version>>

\* the scan with the limit one block too high
ManageScanLax(c) ==
    /\ pc[c].at = "manage"
    /\ LET files == SortFiles({<<cache[f].atime, f>> : f \in DOMAIN cache})
           total_size == TotalSize(cache)
       IN  pc' = IF total_size > max_size + 1
                 THEN [pc EXCEPT ![c] = [at |-> "evict", file_id |-> pc[c].file_id,
                                         files |-> files, total_size |-> total_size,
                                         ret |-> NoReturn]]
                 ELSE [pc EXCEPT ![c] = Idle(NoReturn)]
    /\ UNCHANGED <<directories, experiments, clock, input, output, local_files, gridfs,
                   cache, version>>

\* _manage_cache_size up to its loop: the files with their access times, and
\* their total size
ManageScan(c) ==
    /\ pc[c].at = "manage"
    /\ LET files == SortFiles({<<cache[f].atime, f>> : f \in DOMAIN cache})
           total_size == TotalSize(cache)
       IN  pc' = IF total_size > max_size
                 THEN [pc EXCEPT ![c] = [at |-> "evict", file_id |-> pc[c].file_id,
                                         files |-> files, total_size |-> total_size,
                                         ret |-> NoReturn]]
                 ELSE [pc EXCEPT ![c] = Idle(NoReturn)]
    /\ UNCHANGED <<directories, experiments, clock, input, output, local_files, gridfs,
                   cache, version>>

\* one pass of the loop "while total_size > max_size and files", selected
\* being random.choice of the candidates: stat() raises FileNotFoundError on
\* a file another process has removed
EvictOneOf(c, candidates) ==
    /\ pc[c].at = "evict"
    /\ IF pc[c].total_size > max_size /\ pc[c].files # <<>>
       THEN \E i \in 1..Len(candidates) :
               LET selected == candidates[i]
               IN  IF selected[2] \notin DOMAIN cache
                   THEN /\ pc' = [pc EXCEPT ![c] = Idle([kind |-> "raised", data |-> <<>>])]
                        /\ cache' = cache
                   ELSE /\ pc' = [pc EXCEPT ![c].files = Remove(pc[c].files, selected),
                                            ![c].total_size =
                                                @ - Len(cache[selected[2]].data)]
                        /\ cache' = [f \in DOMAIN cache \ {selected[2]} |-> cache[f]]
       ELSE pc' = [pc EXCEPT ![c] = Idle(NoReturn)] /\ cache' = cache
    /\ UNCHANGED <<directories, experiments, clock, input, output, local_files, gridfs, version>>

\* files[:n]
Take(files, n) == SubSeq(files, 1, IF Len(files) < n THEN Len(files) ELSE n)

\* the pass with three candidates
EvictStepOfThree(c) == EvictOneOf(c, Take(pc[c].files, 3))

\* candidates = files[:2]
EvictStep(c) == EvictOneOf(c, Take(pc[c].files, 2))

\* _read_from_cache, first step: cache_path.exists()
ReadExists(c, file_id) ==
    /\ pc[c].at = "idle"
    /\ pc' = IF file_id \in DOMAIN cache THEN At(c, "touch", file_id)
             ELSE [pc EXCEPT ![c] = Idle([kind |-> "miss", data |-> <<>>])]
    /\ UNCHANGED <<directories, experiments, clock, input, output, local_files, gridfs,
                   cache, version>>

\* cache_path.touch(): the access time becomes now; a file removed since the
\* exists() is created empty
ReadTouch(c) ==
    /\ pc[c].at = "touch"
    /\ \E t \in Stamps :
          /\ clock' = t
          /\ cache' = [f \in DOMAIN cache \cup {pc[c].file_id} |->
                          IF f = pc[c].file_id
                          THEN [data |-> IF f \in DOMAIN cache THEN cache[f].data ELSE <<>>,
                                atime |-> t]
                          ELSE cache[f]]
    /\ pc' = At(c, "read", pc[c].file_id)
    /\ UNCHANGED <<directories, experiments, input, output, local_files, gridfs, version>>

\* cache_path.read_bytes(): what the file holds now; FileNotFoundError when
\* it was removed since the touch()
ReadBytes(c) ==
    /\ pc[c].at = "read"
    /\ pc' = [pc EXCEPT ![c] =
                Idle(IF pc[c].file_id \in DOMAIN cache
                     THEN [kind |-> "data", data |-> cache[pc[c].file_id].data]
                     ELSE [kind |-> "raised", data |-> <<>>])]
    /\ UNCHANGED <<directories, experiments, clock, input, output, local_files, gridfs,
                   cache, version>>

(***************************************************************************)
(* serialization.py: arrays.  An array is [dtype, shape, values]; bytes    *)
(* are a sequence of blocks, each block a tuple.  A file of the local      *)
(* storage path and a GridFS object are bytes, keyed by the long_id() of   *)
(* the file name and by the ObjectId.  One process makes the calls, so a   *)
(* call is taken whole; S is [L, G, C]: the local files, the GridFS        *)
(* objects and the cache a call finds or leaves.                           *)
(***************************************************************************)
\* 5 * 1024 * 1024 bytes, in blocks: longer data is not stored inline
InlineThreshold == 2

Stores(L, G, C) == [L |-> L, G |-> G, C |-> C]

RECURSIVE Prod(_)
Prod(shape) == IF shape = <<>> THEN 1 ELSE Head(shape) * Prod(Tail(shape))

\* np.save(buffer, arr): the header with dtype and shape, then the elements
np_save(arr) ==
    <<<<"NUMPY", arr.dtype, arr.shape>>>> \o
    [i \in 1..Len(arr.values) |-> <<arr.values[i]>>]

\* np.load raises on bytes that do not start with a header, or that hold
\* fewer or more elements than the header's shape
NpLoadRaises(b) ==
    \/ b = <<>>
    \/ Len(b[1]) # 3
    \/ Len(b) - 1 # Prod(b[1][3])

np_load(b) ==
    [dtype |-> b[1][2], shape |-> b[1][3],
     values |-> [i \in 1..(Len(b) - 1) |-> b[i + 1][1]]]

\* lz4.frame.compress(raw_data): the frame header, then the content
lz4_compress(raw_data) == <<<<"lz4">>>> \o raw_data

Lz4DecompressRaises(data) == data = <<>> \/ data[1] # <<"lz4">>

lz4_decompress(data) == Tail(data)

\* the loop of _manage_cache_size run to its end: every cache it can leave
RECURSIVE ManageLoop(_, _, _)
ManageLoop(C, files, total_size) ==
    IF total_size > max_size /\ files # <<>>
    THEN UNION {ManageLoop([f \in DOMAIN C \ {selected[2]} |-> C[f]],
                           Remove(files, selected),
                           total_size - Len(C[selected[2]].data)) :
                    selected \in {Take(files, 2)[i] : i \in 1..Len(Take(files, 2))}}
    ELSE {C}

manage_cache_size(C) ==
    ManageLoop(C, SortFiles({<<C[f].atime, f>> : f \in DOMAIN C}), TotalSize(C))

\* _save_to_cache(data, file_id, config): every cache it can leave
save_to_cache(C, now, data, file_id, config) ==
    IF ~config.local_cache_enabled THEN {C}
    ELSE manage_cache_size(
             [f \in DOMAIN C \cup {file_id} |->
                 IF f = file_id
                 THEN [data |-> data,
                       atime |-> IF file_id \in DOMAIN C THEN C[file_id].atime ELSE now]
                 ELSE C[f]])

\* _read_from_cache(file_id, config): found is FALSE for None
read_from_cache(C, now, file_id, config) ==
    IF config.local_cache_enabled /\ file_id \in DOMAIN C
    THEN [C |-> [C EXCEPT ![file_id].atime = now], found |-> TRUE,
          data |-> C[file_id].data]
    ELSE [C |-> C, found |-> FALSE, data |-> <<>>]

\* what a call of the serialization module leaves and returns
Result(S, res, ret) == [S |-> S, res |-> res, ret |-> ret]

\* serialize_numpy_array(arr, db): id is the long_id() or the ObjectId the
\* call draws
serialize_numpy_array(S, now, arr, id, config) ==
    LET compress == config.compress_arrays
        raw_data == np_save(arr)
        data == IF compress THEN lz4_compress(raw_data) ELSE raw_data
        storage_type == config.large_file_storage
    IN  IF Len(data) > InlineThreshold
        THEN IF storage_type = "none" THEN {Result(S, "ValueError", <<>>)}
             ELSE IF storage_type = "local"
             THEN IF ~config.local_file_storage_path
                  THEN {Result(S, "ValueError", <<>>)}
                  ELSE {Result(Stores([f \in DOMAIN S.L \cup {id} |->
                                          IF f = id THEN data ELSE S.L[f]], S.G, S.C),
                               "ok",
                               [numpy_array |-> TRUE, storage_type |-> "local",
                                file_path |-> id, dtype |-> arr.dtype,
                                shape |-> arr.shape, compressed |-> compress])}
             ELSE IF storage_type = "gridfs"
             THEN {Result(Stores(S.L,
                                 [f \in DOMAIN S.G \cup {id} |->
                                     IF f = id THEN data ELSE S.G[f]], C),
                          "ok",
                          [numpy_array |-> TRUE, storage_type |-> "gridfs",
                           file_id |-> id, dtype |-> arr.dtype,
                           shape |-> arr.shape, compressed |-> compress]) :
                      C \in save_to_cache(S.C, now, data, id, config)}
             ELSE {Result(S, "ValueError", <<>>)}
        ELSE {Result(S, "ok",
                     [numpy_array |-> TRUE, storage_type |-> "binary",
                      data |-> data, dtype |-> arr.dtype,
                      shape |-> arr.shape, compressed |-> compress])}

\* the end of deserialize_numpy_array: decompress, load, reshape, astype
LoadArray(S, array_data, desc) ==
    IF desc.compressed /\ Lz4DecompressRaises(array_data)
    THEN Result(S, "RuntimeError", <<>>)
    ELSE LET b == IF desc.compressed THEN lz4_decompress(array_data) ELSE array_data
         IN  IF NpLoadRaises(b) THEN Result(S, "ValueError", <<>>)
             ELSE LET arr == np_load(b)
                  IN  IF desc.shape # <<>>
                      THEN IF Prod(desc.shape) # Len(arr.values)
                           THEN Result(S, "ValueError", <<>>)
                           ELSE Result(S, "ok", [arr EXCEPT !.shape = desc.shape,
                                                            !.dtype = desc.dtype])
                      ELSE Result(S, "ok", arr)

\* deserialize_numpy_array(data, db)
deserialize_numpy_array(S, now, desc, config) ==
    IF desc.storage_type = "gridfs"
    THEN LET cached == read_from_cache(S.C, now, desc.file_id, config)
         IN  IF cached.found /\ cached.data # <<>>
             THEN {LoadArray(Stores(S.L, S.G, cached.C), cached.data, desc)}
             ELSE IF desc.file_id \notin DOMAIN S.G
             THEN {Result(Stores(S.L, S.G, cached.C), "NotFoundError", <<>>)}
             ELSE {LoadArray(Stores(S.L, S.G, C), S.G[desc.file_id], desc) :
                      C \in save_to_cache(cached.C, now, S.G[desc.file_id],
                                          desc.file_id, config)}
    ELSE IF desc.storage_type = "local"
    THEN IF desc.file_path \notin DOMAIN S.L
         THEN {Result(S, "NotFoundError", <<>>)}
         ELSE {LoadArray(S, S.L[desc.file_path], desc)}
    ELSE {LoadArray(S, desc.data, desc)}

\* the cleanup that skips the local tier
CleanupGridfsOnly(S, desc) ==
    IF desc.storage_type = "gridfs"
    THEN Stores(S.L, [f \in DOMAIN S.G \ {desc.file_id} |-> S.G[f]], S.C)
    ELSE S

\* cleanup_array_files(obj, db) on an array descriptor: fs.delete of a
\* missing object and a missing file raise nothing that leaves the call
cleanup_array_files(S, desc) ==
    IF desc.storage_type = "gridfs"
    THEN Stores(S.L, [f \in DOMAIN S.G \ {desc.file_id} |-> S.G[f]], S.C)
    ELSE IF desc.storage_type = "local"
    THEN Stores([f \in DOMAIN S.L \ {desc.file_path} |-> S.L[f]], S.G, S.C)
    ELSE S

(***************************************************************************)
(* database.py with array data: the checks of a call come first, then      *)
(* serialize(value, self.db), then the write of the document.  The data    *)
(* dict of a call holds at most one array.                                 *)
(***************************************************************************)
StoreResult(S, D, E, res, ret) == [S |-> S, D |-> D, E |-> E, res |-> res, ret |-> ret]

\* serialize(data, self.db) on the data dict of create_experiment
SerializeData(S, now, data, id, config) ==
    IF data = {} THEN {Result(S, "ok", {})}
    ELSE LET kv == CHOOSE x \in data : TRUE
         IN  {Result(r.S, r.res, IF r.res = "ok" THEN {<<kv[1], r.ret>>} ELSE {}) :
                 r \in serialize_numpy_array(S, now, kv[2], id, config)}

\* create_experiment(path, name, data) with arrays in data
create_experiment_arrays(S, D, E, now, path, name, data, id, config) ==
    LET checks == create_experiment(D, E, now, path, name, EmptyDict, EmptyDict)
    IN  IF checks.res # "ok" THEN {StoreResult(S, D, E, checks.res, <<>>)}
        ELSE {IF s.res # "ok" THEN StoreResult(s.S, D, E, s.res, <<>>)
              ELSE LET r == create_experiment(D, E, now, path, name, s.ret, EmptyDict)
                   IN  StoreResult(s.S, r.D, r.E, r.res, r.ret) :
                 s \in SerializeData(S, now, data, id, config)}

\* add_experiment_data(path, key, value) with an array as value
add_experiment_array(S, D, E, now, path, key, value, id, config) ==
    IF EnsurePathExistsRaises(D, E, path) THEN {StoreResult(S, D, E, "NotFoundError", <<>>)}
    ELSE UNION {IF s.res # "ok" THEN {StoreResult(s.S, D, E, s.res, <<>>)}
                ELSE {StoreResult(s.S, r.D, r.E, r.res, r.ret) :
                         r \in add_experiment_data(D, E, path, key, s.ret)} :
                   s \in serialize_numpy_array(S, now, value, id, config)}

\* the array descriptors in the data of the experiments a cursor returns
RECURSIVE CursorList(_)
CursorList(descs) ==
    IF descs = {} THEN <<>>
    ELSE LET first == CHOOSE x \in descs : TRUE
         IN  <<first>> \o CursorList(descs \ {first})

(***************************************************************************)
(* The calls of a client: the arguments the model draws.                   *)
(***************************************************************************)
Root == <<"/">>

\* create_dir(path)
CreateDirPaths ==
    {<<"/">>, <<"/", "a">>, <<"/", "a", "b">>, <<"/", "a", ".", "b">>,
     <<"/", "a", "/", "b">>, <<"/", "a", "/", "b", "/", "a">>}

\* create_experiment(path, name): name <<>> asks for an allocated name
CreateExpPaths == {<<"/">>, <<"/", "a">>, <<"/", "a", "/", "b">>}

CreateExpNames == {<<>>, <<"b">>}

\* move(src_path, dest_path)
MoveSrcPaths ==
    {<<"/">>, <<"/", "a">>, <<"/", "a", "b">>, <<"/", "a", "/", "*">>}

MoveDestPaths ==
    {<<"/">>, <<"/", "a">>, <<"/", "a", "/", "b">>, <<"a">>}

\* delete(path)
DeletePaths ==
    {<<"/">>, <<"/", "a">>, <<"/", "a", "b">>, <<"/", "a", "/", "b">>,
     <<"/", "0">>, <<"/", "a", "/", "*">>, <<"/", "/", "*">>, <<"/", "*">>}

\* paths with a wildcard that is not the final standalone segment
WildcardMisusePaths ==
    {<<"/", "a", "/", "*", "/", "b">>, <<"/", "a", "/", "b", "*", "c">>,
     <<"/", "a", "*", "/", "*">>}

\* list_dir(path)
ListDirPaths ==
    {<<"/">>, <<"/", "a">>, <<"/", "a", "b">>, <<"/", "a", ".", "b">>,
     <<"/", "a", "/", "b">>}

\* get_experiments_in_list(paths): ["/a/0", "/a/b"]
\*   ["/a/0", "/a/0"]
\*   ["/a/$(0-1)"]
\*   ["/a/$(0-1)", "/a/$(1-2)"]
\*   ["/a/$(2-3)"]
\*   ["/$(0-1)", "/a/b"]
\*   ["/a/$(0,0)"]
\*   ["a/0", "/a/0/"]
\*   []
ListPaths ==
    {<<<<"/", "a", "/", "0">>, <<"/", "a", "/", "b">>>>,
     <<<<"/", "a", "/", "0">>, <<"/", "a", "/", "0">>>>,
     <<<<"/", "a", "/", "$", "(", "0", "-", "1", ")">>>>,
     <<<<"/", "a", "/", "$", "(", "0", "-", "1", ")">>, <<"/", "a", "/", "$", "(", "1", "-", "2", ")">>>>,
     <<<<"/", "a", "/", "$", "(", "2", "-", "3", ")">>>>,
     <<<<"/", "$", "(", "0", "-", "1", ")">>, <<"/", "a", "/", "b">>>>,
     <<<<"/", "a", "/", "$", "(", "0", ",", "0", ")">>>>,
     <<<<"a", "/", "0">>, <<"/", "a", "/", "0", "/">>>>,
     <<>>}

\* a database just connected to: both collections hold no document with a
\* path (the version sentinel has no path_str; no path query matches it)
Init ==
    /\ directories = {}
    /\ experiments = {}
    /\ clock = 0
    /\ input = NoCall
    /\ output = NoCall
    /\ StorageIdle

CreateDir(path) ==
    LET r == create_dir(directories, experiments, clock + 1, path, EmptyDict)
    IN  /\ r.res = "ok" => clock < MaxClock
        /\ directories' = r.D
        /\ experiments' = r.E
        /\ clock' = IF r.res = "ok" THEN clock + 1 ELSE clock
        /\ UNCHANGED <<input, output, storage>>

CreateExperiment(path, name) ==
    LET r == create_experiment(directories, experiments, clock + 1, path, name,
                               EmptyDict, EmptyDict)
    IN  /\ r.res = "ok" => clock < MaxClock
        /\ directories' = r.D
        /\ experiments' = r.E
        /\ clock' = IF r.res = "ok" THEN clock + 1 ELSE clock
        /\ UNCHANGED <<input, output, storage>>

Delete(path) ==
    LET r == delete(directories, experiments, path)
    IN  /\ directories' = r.D
        /\ experiments' = r.E
        /\ UNCHANGED <<clock, input, output, storage>>

Move(src_path, dest_path) ==
    \E r \in move(directories, experiments, src_path, dest_path) :
        /\ \A d \in r.D \cup r.E : Len(d.path_str) <= MaxPathLen
        /\ directories' = r.D
        /\ experiments' = r.E
        /\ UNCHANGED <<clock, input, output, storage>>

DeleteDryRun(path) ==
    LET r == delete_dry_run(directories, experiments, path)
    IN  /\ directories' = r.D
        /\ experiments' = r.E
        /\ UNCHANGED <<clock, input, output, storage>>

MoveDryRun(src_path, dest_path) ==
    LET r == move_dry_run(directories, experiments, src_path, dest_path)
    IN  /\ directories' = r.D
        /\ experiments' = r.E
        /\ UNCHANGED <<clock, input, output, storage>>

GetExperimentsInList(paths) ==
    /\ \E r \in get_experiments_in_list(directories, experiments, paths) :
          /\ directories' = r.D
          /\ experiments' = r.E
    /\ UNCHANGED <<clock, input, output, storage>>

Next ==
    \/ \E path \in CreateDirPaths : CreateDir(path)
    \/ \E path \in CreateExpPaths : \E name \in CreateExpNames :
          CreateExperiment(path, name)
    \/ \E path \in DeletePaths \cup WildcardMisusePaths : Delete(path)
    \/ \E src_path \in MoveSrcPaths \cup WildcardMisusePaths :
          \E dest_path \in MoveDestPaths : Move(src_path, dest_path)
    \/ \E path \in DeletePaths : DeleteDryRun(path)
    \/ \E src_path \in MoveSrcPaths : \E dest_path \in MoveDestPaths :
          MoveDryRun(src_path, dest_path)
    \/ \E paths \in ListPaths : GetExperimentsInList(paths)

Spec == Init /\ [][Next]_vars

(***************************************************************************)
(* The store with failures: a delete or a move may be cut short.           *)
(***************************************************************************)
FailDirPaths == {<<"/", "a">>, <<"/", "a", "/", "b">>}

\* a store in which create_dir("/ab") has been called: a destination for the
\* moves that lies outside "/a"
InitFailures ==
    /\ directories = {DirDoc(0, <<"/", "a", "b">>, EmptyDict)}
    /\ experiments = {}
    /\ clock = 0
    /\ input = NoCall
    /\ output = NoCall
    /\ StorageIdle

FailDeletePaths == {<<"/", "a">>, <<"/", "a", "/", "*">>, <<"/", "/", "*">>}

FailMoveSrcPaths == {<<"/", "a">>, <<"/", "a", "/", "*">>}

FailMoveDestPaths == {<<"/", "a", "b">>, <<"/", "a", "/", "b">>}

DeleteInterrupted(path) ==
    \E st \in delete_interrupted(directories, experiments, path) :
        /\ directories' = st.D
        /\ experiments' = st.E
        /\ UNCHANGED <<clock, input, output, storage>>

MoveInterrupted(src_path, dest_path) ==
    \E st \in move_interrupted(directories, experiments, src_path, dest_path) :
        /\ \A d \in st.D \cup st.E : Len(d.path_str) <= MaxPathLen
        /\ directories' = st.D
        /\ experiments' = st.E
        /\ UNCHANGED <<clock, input, output, storage>>

NextFailures ==
    \/ \E path \in FailDirPaths : CreateDir(path)
    \/ \E path \in {Root} \cup FailDirPaths : \E name \in CreateExpNames :
          CreateExperiment(path, name)
    \/ \E path \in FailDeletePaths : Delete(path)
    \/ \E path \in FailDeletePaths : DeleteInterrupted(path)
    \/ \E src_path \in FailMoveSrcPaths : \E dest_path \in FailMoveDestPaths :
          Move(src_path, dest_path)
    \/ \E src_path \in FailMoveSrcPaths : \E dest_path \in FailMoveDestPaths :
          MoveInterrupted(src_path, dest_path)

SpecFailures == InitFailures /\ [][NextFailures]_vars

(***************************************************************************)
(* The partial updates of an experiment, on a small namespace.             *)
(***************************************************************************)
NotesDirPaths == {<<"/", "a">>}

NotesExpNames == {<<"b">>, <<"c">>}

\* the path argument of the updates: the root, a directory, experiments, and
\* a path nothing is created at
NotesPaths ==
    {<<"/">>, <<"/", "a">>, <<"/", "b">>, <<"/", "a", "/", "b">>, <<"/", "c">>,
     <<"/", "a", "/", "a">>}

NotesKeys == {"k", "m"}

DataKeys == {"k"}

NotesValues == {"v", "w"}

\* the whole-dict argument of update_experiment_notes
NotesDicts == {EmptyDict} \cup {{<<k, v>>} : k \in NotesKeys, v \in NotesValues}

UpdateExperimentNotes(path, notes) ==
    \E r \in update_experiment_notes(directories, experiments, path, notes) :
        /\ directories' = r.D
        /\ experiments' = r.E
        /\ UNCHANGED <<clock, input, output, storage>>

AddExperimentData(path, key, value) ==
    \E r \in add_experiment_data(directories, experiments, path, key, value) :
        /\ directories' = r.D
        /\ experiments' = r.E
        /\ UNCHANGED <<clock, input, output, storage>>

AddExperimentNote(path, key, value) ==
    \E r \in add_experiment_note(directories, experiments, path, key, value) :
        /\ directories' = r.D
        /\ experiments' = r.E
        /\ UNCHANGED <<clock, input, output, storage>>

\* the query argument of get_experiments, by name: no filter, a note, a
\* path_str value, a path_str "$in" list, an "$or" of one note condition
FilterNames == {"none", "note", "path", "in", "or"}

Filter(name) ==
    CASE name = "none" -> EmptyQuery
      [] name = "note" -> [k \in {"notes.k"} |-> [t |-> "val", v |-> "v"]]
      [] name = "path" -> [k \in {"path_str"} |-> [t |-> "path", s |-> <<"/", "b">>]]
      [] name = "in"   -> [k \in {"path_str"} |->
                              [t |-> "dict",
                               ops |-> [o \in {"$in"} |-> {<<"/", "b">>, <<"/", "a", "/", "b">>}]]]
      [] name = "or"   -> [k \in {"$or"} |->
                              [t |-> "list",
                               l |-> << [j \in {"notes.k"} |-> [t |-> "val", v |-> "v"]] >>]]

\* the limit argument; 0 stands for None
Limits == {0, 1, 2}

GetExperiments(path, recursive, name, limit) ==
    /\ \E r \in get_experiments(directories, experiments, path, recursive, Filter(name), limit) :
          /\ directories' = r.D
          /\ experiments' = r.E
    /\ UNCHANGED <<clock, input, output, storage>>

NextNotes ==
    \/ \E path \in NotesDirPaths : CreateDir(path)
    \/ \E path \in {Root} \cup NotesDirPaths : \E name \in NotesExpNames :
          CreateExperiment(path, name)
    \/ \E path \in NotesPaths : \E notes \in NotesDicts :
          UpdateExperimentNotes(path, notes)
    \/ \E path \in NotesPaths : \E key \in DataKeys : \E value \in NotesValues :
          AddExperimentData(path, key, value)
    \/ \E path \in NotesPaths : \E key \in NotesKeys : \E value \in NotesValues :
          AddExperimentNote(path, key, value)
    \/ \E path \in NotesPaths : Delete(path)
    \/ \E path \in NotesPaths : \E recursive \in BOOLEAN :
          \E name \in FilterNames : \E limit \in Limits :
             GetExperiments(path, recursive, name, limit)

SpecNotes == Init /\ [][NextNotes]_vars

(***************************************************************************)
(* The path-template helper on its own: a list of templates is drawn, and  *)
(* _expand_paths is applied to it.                                         *)
(***************************************************************************)
\* templates: \*   /a/1, /a/$(1-2), /a/$(1-3), /a/$(2-2), /a/$(2-3)b
\*   /a$(1-2)/$(1-2), /a/$(3-1), /a/$(1,3,5), /a/$(1, 3, 5), /a/$(1,1)
\*   /a/$(b), /a/$(1-2, /a/$(1-2-3), /a/$(1 - 2)
PathTemplates ==
    {<<"/", "a", "/", "1">>,
     <<"/", "a", "/", "$", "(", "1", "-", "2", ")">>,
     <<"/", "a", "/", "$", "(", "1", "-", "3", ")">>,
     <<"/", "a", "/", "$", "(", "2", "-", "2", ")">>,
     <<"/", "a", "/", "$", "(", "2", "-", "3", ")", "b">>,
     <<"/", "a", "$", "(", "1", "-", "2", ")", "/", "$", "(", "1", "-", "2", ")">>,
     <<"/", "a", "/", "$", "(", "3", "-", "1", ")">>,
     <<"/", "a", "/", "$", "(", "1", ",", "3", ",", "5", ")">>,
     <<"/", "a", "/", "$", "(", "1", ",", " ", "3", ",", " ", "5", ")">>,
     <<"/", "a", "/", "$", "(", "1", ",", "1", ")">>,
     <<"/", "a", "/", "$", "(", "b", ")">>,
     <<"/", "a", "/", "$", "(", "1", "-", "2">>,
     <<"/", "a", "/", "$", "(", "1", "-", "2", "-", "3", ")">>,
     <<"/", "a", "/", "$", "(", "1", " ", "-", " ", "2", ")">>}

\* the lists of at most two templates
TemplateLists ==
    {<<>>} \cup {<<t>> : t \in PathTemplates}
           \cup {<<t, u>> : t \in PathTemplates, u \in PathTemplates}

InitExpand ==
    /\ directories = {}
    /\ experiments = {}
    /\ clock = 0
    /\ input \in {[called |-> FALSE, paths |-> l] : l \in TemplateLists}
    /\ output = NoCall
    /\ StorageIdle

ExpandPaths ==
    /\ ~output.called
    /\ output' = [called |-> TRUE, value |-> expand_paths(input.paths)]
    /\ UNCHANGED <<directories, experiments, clock, input, storage>>

NextExpand == ExpandPaths

SpecExpand == InitExpand /\ [][NextExpand]_vars

(***************************************************************************)
(* The path helpers on their own: a path string or a list of segments is   *)
(* drawn; split_path then join_path, or join_path then split_path, is      *)
(* applied to it.                                                          *)
(***************************************************************************)
\* the characters of the drawn strings: a letter, the separator, the
\* wildcard and a character outside ALLOWED_PATH_CHARS
PathChars == {"a", "/", "*", ","}

PathStrings == UNION {[1..n -> PathChars] : n \in 0..MaxStrLen}

SegmentChars == {"a", "/", "*"}

Segments == UNION {[1..n -> SegmentChars] : n \in 0..MaxSegLen}

SegmentLists == UNION {[1..n -> Segments] : n \in 0..MaxSegments}

InitPaths ==
    /\ directories = {}
    /\ experiments = {}
    /\ clock = 0
    /\ \/ input \in {[called |-> FALSE, kind |-> "path", path |-> p] : p \in PathStrings}
       \/ input \in {[called |-> FALSE, kind |-> "segments", segments |-> l] :
                        l \in SegmentLists}
    /\ output = NoCall
    /\ StorageIdle

\* join_path(split_path(path)): which of the two calls raised, and the result
SplitThenJoin ==
    /\ ~output.called
    /\ input.kind = "path"
    /\ output' =
          IF SplitPathRaises(input.path)
          THEN [called |-> TRUE, accepted |-> FALSE, raised |-> TRUE]
          ELSE IF JoinPathRaises(split_path(input.path))
          THEN [called |-> TRUE, accepted |-> TRUE, raised |-> TRUE]
          ELSE [called |-> TRUE, accepted |-> TRUE, raised |-> FALSE,
                value |-> join_path(split_path(input.path))]
    /\ UNCHANGED <<directories, experiments, clock, input, storage>>

\* split_path(join_path(segments))
JoinThenSplit ==
    /\ ~output.called
    /\ input.kind = "segments"
    /\ output' =
          IF JoinPathRaises(input.segments)
          THEN [called |-> TRUE, accepted |-> FALSE, raised |-> TRUE]
          ELSE IF SplitPathRaises(join_path(input.segments))
          THEN [called |-> TRUE, accepted |-> TRUE, raised |-> TRUE]
          ELSE [called |-> TRUE, accepted |-> TRUE, raised |-> FALSE,
                value |-> split_path(join_path(input.segments))]
    /\ UNCHANGED <<directories, experiments, clock, input, storage>>

NextPaths == SplitThenJoin \/ JoinThenSplit

SpecPaths == InitPaths /\ [][NextPaths]_vars

(***************************************************************************)
(* Two clients creating at the same time.  Each call of the store is one   *)
(* step: a create is the step of its checks (the finds and the count) and  *)
(* the step of its insert_one.  The "path_str" indexes are not unique.     *)
(***************************************************************************)
RaceDirPaths == {<<"/", "a">>, <<"/", "b">>}

RaceExpPaths == {<<"/">>, <<"/", "a">>}

RaceExpNames == {<<>>, <<"b">>}

Outside == [at |-> "idle", path |-> <<>>]

InitRace ==
    /\ directories = {}
    /\ experiments = {}
    /\ clock = 0
    /\ input = NoCall
    /\ output = NoCall
    /\ local_files = Nothing
    /\ gridfs = Nothing
    /\ cache = Nothing
    /\ pc = [c \in {1, 2} |-> Outside]
    /\ version = RunningVersion

\* create_dir up to its insert: the call goes on when no check raises
CreateDirChecks(c, path) ==
    /\ pc[c].at = "idle"
    /\ create_dir(directories, experiments, clock + 1, path, EmptyDict).res = "ok"
    /\ pc' = [pc EXCEPT ![c] = [at |-> "insert_dir", path |-> path]]
    /\ UNCHANGED <<directories, experiments, clock, input, output, local_files, gridfs,
                   cache, version>>

\* directories.insert_one of create_dir
CreateDirInserts(c) ==
    /\ pc[c].at = "insert_dir"
    /\ clock < MaxClock
    /\ directories' = directories \cup {DirDoc(clock + 1, pc[c].path, EmptyDict)}
    /\ clock' = clock + 1
    /\ pc' = [pc EXCEPT ![c] = Outside]
    /\ UNCHANGED <<experiments, input, output, local_files, gridfs, cache, version>>

\* create_experiment up to its insert: the path it has settled on
CreateExperimentChecks(c, path, name) ==
    /\ pc[c].at = "idle"
    /\ LET r == create_experiment(directories, experiments, clock + 1, path, name,
                                  EmptyDict, EmptyDict)
       IN  /\ r.res = "ok"
           /\ pc' = [pc EXCEPT ![c] = [at |-> "insert_exp", path |-> r.ret[1]]]
    /\ UNCHANGED <<directories, experiments, clock, input, output, local_files, gridfs,
                   cache, version>>

\* experiments.insert_one of create_experiment
CreateExperimentInserts(c) ==
    /\ pc[c].at = "insert_exp"
    /\ clock < MaxClock
    /\ experiments' = experiments \cup {ExpDoc(clock + 1, pc[c].path, EmptyDict, EmptyDict)}
    /\ clock' = clock + 1
    /\ pc' = [pc EXCEPT ![c] = Outside]
    /\ UNCHANGED <<directories, input, output, local_files, gridfs, cache, version>>

NextRace ==
    \E c \in DOMAIN pc :
        \/ \E path \in RaceDirPaths : CreateDirChecks(c, path)
        \/ CreateDirInserts(c)
        \/ \E path \in RaceExpPaths : \E name \in RaceExpNames :
              CreateExperimentChecks(c, path, name)
        \/ CreateExperimentInserts(c)

SpecRace == InitRace /\ [][NextRace]_vars

(***************************************************************************)
(* The serialization module called directly: a client serializes arrays,   *)
(* keeps the descriptors, and deserializes and cleans them up in any       *)
(* order.  pc[c].held is what the client holds: each descriptor with the   *)
(* array it was made from.                                                 *)
(***************************************************************************)
\* the ObjectIds and long_id()s the model draws from
PayloadIds == {1, 2}

ArrayInputs ==
    {[dtype |-> "int64", shape |-> <<1>>, values |-> <<"x">>],
     [dtype |-> "float64", shape |-> <<1, 2>>, values |-> <<"x", "y">>],
     [dtype |-> "int64", shape |-> <<>>, values |-> <<"y">>]}

\* what load_config() returns
Config(compress_arrays, large_file_storage, local_cache_enabled) ==
    [compress_arrays |-> compress_arrays, large_file_storage |-> large_file_storage,
     local_cache_enabled |-> local_cache_enabled, local_file_storage_path |-> TRUE]

ConfigInputs ==
    {Config(TRUE, "gridfs", TRUE), Config(FALSE, "gridfs", TRUE),
     Config(TRUE, "gridfs", FALSE), Config(TRUE, "local", FALSE),
     Config(FALSE, "local", FALSE), Config(TRUE, "none", FALSE)}

External(desc) == desc.storage_type \in {"local", "gridfs"}

\* the long_id() or ObjectId of an external descriptor
LocatorOf(desc) == IF desc.storage_type = "gridfs" THEN desc.file_id ELSE desc.file_path

\* the backing file or object of the descriptor is there
Backed(desc) ==
    \/ desc.storage_type = "local" /\ desc.file_path \in DOMAIN local_files
    \/ desc.storage_type = "gridfs" /\ desc.file_id \in DOMAIN gridfs

\* an id is drawn once: no file, object, cache file or held descriptor has it
UsedIds ==
    DOMAIN local_files \cup DOMAIN gridfs \cup DOMAIN cache
    \cup {LocatorOf(h.desc) : h \in {x \in pc[1].held : External(x.desc)}}

InitArrays ==
    /\ directories = {}
    /\ experiments = {}
    /\ clock = 0
    /\ input = NoCall
    /\ output = NoCall
    /\ local_files = Nothing
    /\ gridfs = Nothing
    /\ cache = Nothing
    /\ pc = [c \in {1} |-> [held |-> {}]]
    /\ version = RunningVersion

Serialize(arr, config) ==
    /\ PayloadIds \ UsedIds # {}
    /\ LET id == CHOOSE i \in PayloadIds \ UsedIds :
                     \A j \in PayloadIds \ UsedIds : i <= j
       IN  \E now \in Stamps :
           \E r \in serialize_numpy_array(Stores(local_files, gridfs, cache),
                                          now, arr, id, config) :
              /\ local_files' = r.S.L
              /\ gridfs' = r.S.G
              /\ cache' = r.S.C
              /\ clock' = now
              /\ input' = [called |-> TRUE, op |-> "serialize", arr |-> arr]
              /\ output' = [called |-> TRUE, res |-> r.res, ret |-> r.ret]
              /\ pc' = IF r.res = "ok"
                       THEN [pc EXCEPT ![1].held = @ \cup {[arr |-> arr, desc |-> r.ret]}]
                       ELSE pc
    /\ UNCHANGED <<directories, experiments, version>>

Deserialize(h, config) ==
    /\ \E now \in Stamps :
       \E r \in deserialize_numpy_array(Stores(local_files, gridfs, cache),
                                        now, h.desc, config) :
          /\ local_files' = r.S.L
          /\ gridfs' = r.S.G
          /\ cache' = r.S.C
          /\ clock' = now
          /\ input' = [called |-> TRUE, op |-> "deserialize", arr |-> h.arr,
                       desc |-> h.desc, existed |-> Backed(h.desc)]
          /\ output' = [called |-> TRUE, res |-> r.res, ret |-> r.ret]
    /\ UNCHANGED <<directories, experiments, pc, version>>

Cleanup(h) ==
    /\ LET S == cleanup_array_files(Stores(local_files, gridfs, cache), h.desc)
       IN  /\ local_files' = S.L
           /\ gridfs' = S.G
           /\ cache' = S.C
    /\ input' = [called |-> TRUE, op |-> "cleanup", arr |-> h.arr,
                 desc |-> h.desc, existed |-> Backed(h.desc)]
    /\ output' = [called |-> TRUE, res |-> "ok", ret |-> <<>>]
    /\ UNCHANGED <<directories, experiments, clock, pc, version>>

NextArrays ==
    \/ \E arr \in ArrayInputs, config \in ConfigInputs : Serialize(arr, config)
    \/ \E h \in pc[1].held, config \in ConfigInputs : Deserialize(h, config)
    \/ \E h \in pc[1].held : Cleanup(h)

SpecArrays == InitArrays /\ [][NextArrays]_vars

(***************************************************************************)
(* Experiments with array data: create_experiment, add_experiment_data and *)
(* delete of one client.  delete is taken step by step: the listing of a   *)
(* wildcard, then for each path the find, the cleanup of one descriptor    *)
(* after the other, and the two delete_many.  A cleanup step may fail (the *)
(* store or the file system raises; the except clause drops it), and the   *)
(* process may be stopped inside delete.                                   *)
(***************************************************************************)
PayloadDirPath == <<"/", "a">>

PayloadExpNames == {<<"b">>, <<"c">>}

PayloadExpPaths == {<<"/", "a", "/", "b">>, <<"/", "a", "/", "c">>}

PayloadDeletePaths ==
    {<<"/", "a", "/", "b">>, <<"/", "a", "/", "*">>, <<"/", "a">>, <<"/", "*", "/", "*">>}

PayloadArray == [dtype |-> "float64", shape |-> <<1, 2>>, values |-> <<"x", "y">>]

PayloadData == {EmptyDict, {<<"k", PayloadArray>>}}

PayloadConfigs == {Config(FALSE, "gridfs", TRUE), Config(FALSE, "local", FALSE)}

\* outside every call
NoDelete == [at |-> "idle", path |-> <<>>, queue |-> <<>>, descs |-> <<>>, failed |-> {}]

DescriptorsOf(E) == UNION {{kv[2] : kv \in e.data} : e \in E}

\* an id is drawn once: no file, object, cache file or descriptor has it
UsedPayloadIds ==
    DOMAIN local_files \cup DOMAIN gridfs \cup DOMAIN cache
    \cup {LocatorOf(d) : d \in {x \in DescriptorsOf(experiments) : External(x)}}

FreshPayloadId ==
    CHOOSE i \in PayloadIds \ UsedPayloadIds : \A j \in PayloadIds \ UsedPayloadIds : i <= j

InitPayloads ==
    /\ directories = {DirDoc(0, PayloadDirPath, EmptyDict)}
    /\ experiments = {}
    /\ clock = 0
    /\ input = NoCall
    /\ output = NoCall
    /\ local_files = Nothing
    /\ gridfs = Nothing
    /\ cache = Nothing
    /\ pc = [c \in {1} |-> NoDelete]
    /\ version = RunningVersion

CreateExperimentArrays(path, name, data, config) ==
    /\ pc[1].at = "idle"
    /\ PayloadIds \ UsedPayloadIds # {}
    /\ \E r \in create_experiment_arrays(Stores(local_files, gridfs, cache), directories,
                                         experiments, clock + 1, path, name, data,
                                         FreshPayloadId, config) :
          /\ r.res = "ok" => clock < MaxClock
          /\ local_files' = r.S.L
          /\ gridfs' = r.S.G
          /\ cache' = r.S.C
          /\ directories' = r.D
          /\ experiments' = r.E
          /\ clock' = IF r.res = "ok" THEN clock + 1 ELSE clock
          /\ output' = [called |-> TRUE, op |-> "create_experiment", res |-> r.res]
    /\ UNCHANGED <<input, pc, version>>

AddExperimentArray(path, key, value, config) ==
    /\ pc[1].at = "idle"
    /\ PayloadIds \ UsedPayloadIds # {}
    /\ \E r \in add_experiment_array(Stores(local_files, gridfs, cache), directories,
                                     experiments, clock, path, key, value,
                                     FreshPayloadId, config) :
          /\ local_files' = r.S.L
          /\ gridfs' = r.S.G
          /\ cache' = r.S.C
          /\ directories' = r.D
          /\ experiments' = r.E
          /\ output' = [called |-> TRUE, op |-> "add_experiment_data", res |-> r.res]
    /\ UNCHANGED <<clock, input, pc, version>>

\* delete(path) up to the loop over the children, or up to the query
DeleteBegin(path) ==
    /\ pc[1].at = "idle"
    /\ LET dir_path == DropLast(path, 2)
           res == IF ~EndsWith(path, <<"/", "*">>) THEN "ok"
                  ELSE IF HasChar(dir_path, "*") THEN "PathError"
                  ELSE IF ~dir_exists(directories, dir_path) THEN "NotFoundError"
                  ELSE "ok"
           items == IF res = "ok" /\ EndsWith(path, <<"/", "*">>)
                    THEN list_dir(directories, experiments, dir_path).ret ELSE <<>>
           queue == IF EndsWith(path, <<"/", "*">>)
                    THEN [i \in 1..Len(items) |-> items[i].path_str] ELSE <<path>>
       IN  IF res = "ok" /\ queue # <<>>
           THEN /\ pc' = [pc EXCEPT ![1] = [at |-> "find", path |-> path, queue |-> queue,
                                            descs |-> <<>>, failed |-> {}]]
                /\ output' = output
           ELSE /\ pc' = pc
                /\ output' = [called |-> TRUE, op |-> "delete", res |-> res]
    /\ UNCHANGED <<directories, experiments, clock, input, local_files, gridfs, cache,
                   version>>

\* the find that reads nothing
DeleteFindNothing ==
    /\ pc[1].at = "find"
    /\ pc' = [pc EXCEPT ![1].at = "cleanup", ![1].descs = <<>>]
    /\ UNCHANGED <<directories, experiments, clock, input, output, local_files, gridfs,
                   cache, version>>

\* exps = list(self.experiments.find(path_query, {"_id": 0, "data": 1}))
DeleteFind ==
    /\ pc[1].at = "find"
    /\ pc' = [pc EXCEPT ![1].at = "cleanup",
                        ![1].descs = CursorList(DescriptorsOf(
                            {e \in experiments :
                                PrefixQuery(Head(pc[1].queue), e.path_str)}))]
    /\ UNCHANGED <<directories, experiments, clock, input, output, local_files, gridfs,
                   cache, version>>

\* cleanup_array_files on the next descriptor: done, or failed with an
\* exception that the except clause drops
DeleteCleanup ==
    /\ pc[1].at = "cleanup"
    /\ pc[1].descs # <<>>
    /\ LET desc == Head(pc[1].descs)
       IN  \/ /\ LET S == cleanup_array_files(Stores(local_files, gridfs, cache), desc)
                 IN  /\ local_files' = S.L
                     /\ gridfs' = S.G
                     /\ cache' = S.C
              /\ pc' = [pc EXCEPT ![1].descs = Tail(@)]
           \/ /\ External(desc)
              /\ UNCHANGED <<local_files, gridfs, cache>>
              /\ pc' = [pc EXCEPT ![1].descs = Tail(@), ![1].failed = @ \cup {desc}]
    /\ UNCHANGED <<directories, experiments, clock, input, output, version>>

\* self.experiments.delete_many(path_query)
DeleteExperiments ==
    /\ pc[1].at = "cleanup"
    /\ pc[1].descs = <<>>
    /\ experiments' = {e \in experiments : ~PrefixQuery(Head(pc[1].queue), e.path_str)}
    /\ pc' = [pc EXCEPT ![1].at = "directories"]
    /\ UNCHANGED <<directories, clock, input, output, local_files, gridfs, cache, version>>

\* self.directories.delete_many(path_query), and the return to the loop
DeleteDirectories ==
    /\ pc[1].at = "directories"
    /\ directories' = {d \in directories : ~PrefixQuery(Head(pc[1].queue), d.path_str)}
    /\ IF Tail(pc[1].queue) = <<>>
       THEN /\ pc' = [pc EXCEPT ![1] = NoDelete]
            /\ output' = [called |-> TRUE, op |-> "delete", res |-> "ok"]
       ELSE /\ pc' = [pc EXCEPT ![1].at = "find", ![1].queue = Tail(@)]
            /\ output' = output
    /\ UNCHANGED <<experiments, clock, input, local_files, gridfs, cache, version>>

\* the process is stopped inside delete
DeleteStopped ==
    /\ pc[1].at # "idle"
    /\ pc' = [pc EXCEPT ![1] = NoDelete]
    /\ output' = [called |-> TRUE, op |-> "delete", res |-> "stopped"]
    /\ UNCHANGED <<directories, experiments, clock, input, local_files, gridfs, cache,
                   version>>

NextPayloads ==
    \/ \E name \in PayloadExpNames, data \in PayloadData, config \in PayloadConfigs :
          CreateExperimentArrays(PayloadDirPath, name, data, config)
    \/ \E path \in PayloadExpPaths \cup {PayloadDirPath}, config \in PayloadConfigs :
          AddExperimentArray(path, "k", PayloadArray, config)
    \/ \E path \in PayloadDeletePaths : DeleteBegin(path)
    \/ DeleteFind
    \/ DeleteCleanup
    \/ DeleteExperiments
    \/ DeleteDirectories
    \/ DeleteStopped

SpecPayloads == InitPayloads /\ [][NextPayloads]_vars

(***************************************************************************)
(* database.py, Database.__init__: the version sentinel.  Two processes,   *)
(* each running some version of the package, construct a Database on the   *)
(* same database, work through it and drop it.  The sentinel document has  *)
(* no path_str, so no query of an operation matches it ("$ne": None does   *)
(* not match a missing field): operations leave it alone.                  *)
(***************************************************************************)
\* find_one({"_id": "version"}) is None
NoSentinel == <<"None">>

\* importlib.metadata.version("labdb") of the processes
RunningVersions ==
    {<<"1", ".", "0">>, <<"1", ".", "1">>, <<"2", ".", "0">>, <<"1", "0", ".", "0">>}

VersionDirPaths == {<<"/", "a">>}

VersionDeletePaths == {<<"/">>}

\* no Database object
NoDatabase == [at |-> "none", running |-> <<>>]

\* the comparison of the first characters
VersionMismatchFirstChar(recorded, running) == recorded[1] # running[1]

\* version.split(".")[0] != __version__.split(".")[0]
VersionMismatch(recorded, running) ==
    Split(recorded, ".")[1] # Split(running, ".")[1]

InitVersion ==
    /\ directories = {}
    /\ experiments = {}
    /\ clock = 0
    /\ input = NoCall
    /\ output = NoCall
    /\ local_files = Nothing
    /\ gridfs = Nothing
    /\ cache = Nothing
    /\ pc = [c \in {1, 2} |-> NoDatabase]
    /\ version = NoSentinel

\* Database(config) is called, up to the first find_one
ConstructFind(c, running) ==
    /\ pc[c].at \in {"none", "refused", "failed"}
    /\ pc' = [pc EXCEPT ![c] = [at |-> IF version = NoSentinel THEN "insert" ELSE "check",
                                running |-> running]]
    /\ UNCHANGED <<directories, experiments, clock, input, output, local_files, gridfs,
                   cache, version>>

\* insert_one({"_id": "version", ...}) and the create_index calls: the
\* store refuses a second document with the _id
ConstructInsert(c) ==
    /\ pc[c].at = "insert"
    /\ IF version = NoSentinel
       THEN version' = pc[c].running /\ pc' = [pc EXCEPT ![c].at = "check"]
       ELSE version' = version /\ pc' = [pc EXCEPT ![c].at = "failed"]
    /\ UNCHANGED <<directories, experiments, clock, input, output, local_files, gridfs,
                   cache>>

\* the second find_one and the comparison
ConstructCheck(c) ==
    /\ pc[c].at = "check"
    /\ pc' = [pc EXCEPT ![c].at = IF VersionMismatch(version, pc[c].running)
                                  THEN "refused" ELSE "open"]
    /\ UNCHANGED <<directories, experiments, clock, input, output, local_files, gridfs,
                   cache, version>>

\* a method of a constructed Database
CreateDirThrough(c, path) ==
    /\ pc[c].at = "open"
    /\ LET r == create_dir(directories, experiments, clock + 1, path, EmptyDict)
       IN  /\ r.res = "ok" => clock < MaxClock
           /\ directories' = r.D
           /\ experiments' = r.E
           /\ clock' = IF r.res = "ok" THEN clock + 1 ELSE clock
    /\ UNCHANGED <<input, output, storage>>

DeleteThrough(c, path) ==
    /\ pc[c].at = "open"
    /\ LET r == delete(directories, experiments, path)
       IN  /\ directories' = r.D
           /\ experiments' = r.E
    /\ UNCHANGED <<clock, input, output, storage>>

\* the process drops its Database
Drop(c) ==
    /\ pc[c].at = "open"
    /\ pc' = [pc EXCEPT ![c] = NoDatabase]
    /\ UNCHANGED <<directories, experiments, clock, input, output, local_files, gridfs,
                   cache, version>>

NextVersion ==
    \E c \in DOMAIN pc :
        \/ \E running \in RunningVersions : ConstructFind(c, running)
        \/ ConstructInsert(c)
        \/ ConstructCheck(c)
        \/ \E path \in VersionDirPaths : CreateDirThrough(c, path)
        \/ \E path \in VersionDeletePaths : DeleteThrough(c, path)
        \/ Drop(c)

SpecVersion == InitVersion /\ [][NextVersion]_vars

(***************************************************************************)
(* The cache on its own, used by one process, and by two processes that    *)
(* share the cache directory.  A process that has entered a call goes on   *)
(* to its end.                                                             *)
(***************************************************************************)
InitCache ==
    /\ directories = {}
    /\ experiments = {}
    /\ clock = 0
    /\ input = NoCall
    /\ output = NoCall
    /\ local_files = Nothing
    /\ gridfs = Nothing
    /\ cache = Nothing
    /\ pc = [c \in {1} |-> Idle(NoReturn)]
    /\ version = RunningVersion

InitCacheShared ==
    /\ directories = {}
    /\ experiments = {}
    /\ clock = 0
    /\ input = NoCall
    /\ output = NoCall
    /\ local_files = Nothing
    /\ gridfs = Nothing
    /\ cache = Nothing
    /\ pc = [c \in {1, 2} |-> Idle(NoReturn)]
    /\ version = RunningVersion

NextCache ==
    \E c \in DOMAIN pc :
        \/ \E file_id \in FileIds : SaveOpen(c, file_id)
        \/ SaveWrite(c)
        \/ ManageScan(c)
        \/ EvictStep(c)
        \/ \E file_id \in FileIds : ReadExists(c, file_id)
        \/ ReadTouch(c)
        \/ ReadBytes(c)

SpecCache == InitCache /\ [][NextCache]_vars /\ WF_vars(NextCache)

\* the two payloads the sharing processes put and read
SharedFileIds == {2, 3}

NextCacheShared ==
    \E c \in DOMAIN pc :
        \/ \E file_id \in SharedFileIds : SaveOpen(c, file_id)
        \/ SaveWrite(c)
        \/ ManageScan(c)
        \/ EvictStep(c)
        \/ \E file_id \in SharedFileIds : ReadExists(c, file_id)
        \/ ReadTouch(c)
        \/ ReadBytes(c)

SpecCacheShared == InitCacheShared /\ [][NextCacheShared]_vars

(***************************************************************************)
(* What the properties are stated with: the namespace as the path strings  *)
(* spell it, with no use of the store's queries.                           *)
(***************************************************************************)
Docs == directories \cup experiments

HeldPaths == {d.path_str : d \in Docs}

IsDirectory(p) == p = Root \/ \E d \in directories : d.path_str = p

\* s is p plus one further segment
DirectChild(p, s) ==
    LET base == IF p = Root THEN Root ELSE p \o <<"/">>
    IN  /\ StartsWith(s, base)
        /\ Len(s) > Len(base)
        /\ \A i \in (Len(base) + 1)..Len(s) : s[i] # "/"

\* s is p or has p as a prefix ending at a separator (everything, for the root)
AtOrUnder(p, s) ==
    IF p = Root THEN TRUE ELSE s = p \/ StartsWith(s, p \o <<"/">>)

\* s lies in the subtree of p and is not p
StrictlyUnder(p, s) ==
    IF p = Root THEN s # Root ELSE StartsWith(s, p \o <<"/">>)

\* the proper ancestor paths of p, the root aside
ProperAncestors(p) ==
    {SubSeq(p, 1, i - 1) : i \in {k \in 2..Len(p) : p[k] = "/"}}

\* p is written normally: one leading slash, no empty segment, no trailing slash
Normalized(p) ==
    /\ StartsWith(p, <<"/">>)
    /\ FindSub(p, <<"/", "/">>) = 0
    /\ (p # Root => p[Len(p)] # "/")

\* the elements of a sequence
Range(f) == {f[i] : i \in DOMAIN f}

\* the last segment of s, as the string spells it
LastSegment(s) ==
    LET slashes == {i \in 1..Len(s) : s[i] = "/"}
        k == CHOOSE i \in slashes : \A j \in slashes : j <= i
    IN  SubSeq(s, k + 1, Len(s))

\* the numbers that name an experiment directly under p
NumericNamesUnder(p) ==
    {StrToInt(LastSegment(e.path_str)) :
        e \in {x \in experiments :
                 DirectChild(p, x.path_str) /\ IsNumeric(LastSegment(x.path_str))}}

SetMax(S) == CHOOSE m \in S : \A n \in S : n <= m

\* the paths the properties call the operations with: the model's arguments
\* and every path a document holds
ProbePaths ==
    CreateDirPaths \cup CreateExpPaths \cup ListDirPaths \cup HeldPaths
        \cup {p \in DeletePaths : ~EndsWith(p, <<"/", "*">>)}

(***************************************************************************)
(* The properties.  A property of an operation is an invariant: in every   *)
(* reachable state, for every argument probed, the outcome of the call is  *)
(* related to the state it is called in as the property says.              *)
(***************************************************************************)

\* C1: no two documents, counted across the directories and the experiments
\* collection together, have the same path string.
C1_PathsUnique ==
    \A x \in Docs : \A y \in Docs : x.path_str = y.path_str => x = y

\* C2: create_dir(p) on a normal non-root path p that does not exist and whose
\* parent is a directory inserts exactly one directory document with path p,
\* and dir_exists(p) and path_exists(p) hold afterwards; create_dir on the
\* root or on any path a document already holds raises ConflictError and
\* leaves both collections unchanged.
C2_CreateDir ==
    \A p \in ProbePaths :
        LET r == create_dir(directories, experiments, clock + 1, p, EmptyDict)
        IN  /\ (/\ Normalized(p) /\ p # Root /\ p \notin HeldPaths
                /\ IsDirectory(get_parent_path(p)))
               => /\ r.res = "ok"
                  /\ r.E = experiments
                  /\ \E d \in r.D :
                        /\ d \notin directories
                        /\ r.D = directories \cup {d}
                        /\ d.path_str = p /\ d.type = "directory"
                  /\ dir_exists(r.D, p)
                  /\ path_exists(r.D, r.E, p)
            /\ (p = Root \/ p \in HeldPaths)
               => /\ r.res = "ConflictError"
                  /\ r.D = directories /\ r.E = experiments

\* C2, as far as it holds: the same with "any path a document already holds"
\* read as any normally written such path.
C2_CreateDirNormalPaths ==
    \A p \in {q \in ProbePaths : Normalized(q)} :
        LET r == create_dir(directories, experiments, clock + 1, p, EmptyDict)
        IN  /\ (/\ p # Root /\ p \notin HeldPaths
                /\ IsDirectory(get_parent_path(p)))
               => /\ r.res = "ok"
                  /\ r.E = experiments
                  /\ \E d \in r.D :
                        /\ d \notin directories
                        /\ r.D = directories \cup {d}
                        /\ d.path_str = p /\ d.type = "directory"
                  /\ dir_exists(r.D, p)
                  /\ path_exists(r.D, r.E, p)
            /\ (p = Root \/ p \in HeldPaths)
               => /\ r.res = "ConflictError"
                  /\ r.D = directories /\ r.E = experiments

\* C3: create_dir(p) succeeds only if every proper ancestor path of p is a
\* directory (or the root); if an ancestor is missing it raises NotFoundError
\* and inserts nothing.
C3_CreateDirAncestors ==
    \A p \in ProbePaths :
        LET r == create_dir(directories, experiments, clock + 1, p, EmptyDict)
        IN  /\ r.res = "ok" => \A a \in ProperAncestors(p) : IsDirectory(a)
            /\ (\E a \in ProperAncestors(p) : ~IsDirectory(a))
               => /\ r.res = "NotFoundError"
                  /\ r.D = directories /\ r.E = experiments

\* C4: every stored document's path string begins with "/", is not the root
\* path "/" itself and is written normally (no "//").
C4_PathsRooted ==
    \A d \in Docs :
        /\ StartsWith(d.path_str, <<"/">>)
        /\ d.path_str # Root
        /\ Normalized(d.path_str)

\* C4, the part that holds: every stored path string begins with "/".
C4_PathsBeginWithSlash ==
    \A d \in Docs : StartsWith(d.path_str, <<"/">>)

\* C5: for every directory p (the root included) list_dir(p) returns exactly
\* the documents of both collections whose path is p plus one further segment,
\* each once; if p is not a directory it raises NotFoundError.
C5_ListDirDirectChildren ==
    \A p \in ProbePaths :
        LET r == list_dir(directories, experiments, p)
            children == {d \in Docs : DirectChild(p, d.path_str)}
        IN  IF IsDirectory(p)
            THEN /\ r.res = "ok"
                 /\ Range(r.ret) = children
                 /\ Len(r.ret) = Cardinality(children)
            ELSE r.res = "NotFoundError"

\* C5 witness: the listing of the root returns a directory and an experiment
\* and leaves out a document two segments below the root.
C5_Witness ==
    LET r == list_dir(directories, experiments, Root)
    IN  /\ r.res = "ok"
        /\ \E i \in DOMAIN r.ret : r.ret[i].type = "directory"
        /\ \E i \in DOMAIN r.ret : r.ret[i].type = "experiment"
        /\ \E d \in Docs : d \notin Range(r.ret) /\ Len(split_path(d.path_str)) = 2

\* C6 as claimed: list_dir(p) is one list ordered by creation time descending:
\* of any two returned items, the one created later comes first.
C6_MergedNewestFirst ==
    \A p \in ProbePaths :
        LET r == list_dir(directories, experiments, p)
        IN  r.res = "ok" =>
                \A i \in DOMAIN r.ret : \A j \in DOMAIN r.ret :
                    r.ret[i].created_at > r.ret[j].created_at => i < j

\* C6 amended: list_dir(p) returns the directories before the experiments,
\* and within each kind the item created later comes first.
C6_NewestFirstWithinKind ==
    \A p \in ProbePaths :
        LET r == list_dir(directories, experiments, p)
        IN  r.res = "ok" =>
                \A i \in DOMAIN r.ret : \A j \in DOMAIN r.ret :
                    /\ (/\ r.ret[i].type = r.ret[j].type
                        /\ r.ret[i].created_at > r.ret[j].created_at) => i < j
                    /\ (/\ r.ret[i].type = "directory"
                        /\ r.ret[j].type = "experiment") => i < j

\* C6 witness: a listing of two directories and an experiment created between
\* them: the older directory comes before the experiment.
C6_Witness ==
    \E p \in ProbePaths :
        LET r == list_dir(directories, experiments, p)
        IN  /\ r.res = "ok"
            /\ Len(r.ret) = 3
            /\ r.ret[1].type = "directory" /\ r.ret[2].type = "directory"
            /\ r.ret[3].type = "experiment"
            /\ r.ret[1].created_at > r.ret[3].created_at
            /\ r.ret[3].created_at > r.ret[2].created_at

\* C7: create_experiment(path) without a name allocates the decimal string of
\* the largest numeric experiment name directly under path plus one, or "0"
\* when no numerically named experiment is there.
C7_AutoNameMaxPlusOne ==
    \A p \in ProbePaths :
        LET r == create_experiment(directories, experiments, clock + 1, p, <<>>,
                                   EmptyDict, EmptyDict)
            nums == NumericNamesUnder(p)
        IN  r.res = "ok" =>
                r.ret[2] = IntToStr(IF nums = {} THEN 0 ELSE SetMax(nums) + 1)

C10_DeleteSubtree ==
    \A p \in {q \in ProbePaths : ~EndsWith(q, <<"/", "*">>)} :
        LET r == delete(directories, experiments, p)
        IN  /\ r.res = "ok"
            /\ r.D = {d \in directories : ~AtOrUnder(p, d.path_str)}
            /\ r.E = {e \in experiments : ~AtOrUnder(p, e.path_str)}

\* C10 witness: a document p with a descendant and a sibling whose path only
\* shares a string prefix with p: delete(p) leaves the sibling and nothing else.
C10_Witness ==
    \E x \in Docs : \E sib \in Docs :
        LET p == x.path_str
            r == delete(directories, experiments, p)
        IN  /\ p # Root
            /\ \E y \in Docs : StartsWith(y.path_str, p \o <<"/">>)
            /\ StartsWith(sib.path_str, p) /\ ~AtOrUnder(p, sib.path_str)
            /\ r.res = "ok"
            /\ r.D \cup r.E = {sib}

\* C8: add_experiment_data, add_experiment_note and update_experiment_notes
\* each raise NotFoundError and leave every document unchanged whenever the
\* path is not that of an experiment: held by no document, held by a
\* directory, or the root.
C8_UpdatesNeedExperiment ==
    \A p \in NotesPaths \cup HeldPaths :
        (~\E e \in experiments : e.path_str = p) =>
            \A r \in UNION ({update_experiment_notes(directories, experiments, p, n) :
                                 n \in NotesDicts}
                            \cup {add_experiment_data(directories, experiments, p, k, v) :
                                     k \in DataKeys, v \in NotesValues}
                            \cup {add_experiment_note(directories, experiments, p, k, v) :
                                     k \in NotesKeys, v \in NotesValues}) :
                /\ r.res = "NotFoundError"
                /\ r.D = directories /\ r.E = experiments

\* C8, the part that holds: on a path no experiment has the three updates
\* change no document, and on a path no document has (the root aside) they
\* raise NotFoundError.
C8_UpdatesElsewhereChangeNothing ==
    \A p \in NotesPaths \cup HeldPaths :
        (~\E e \in experiments : e.path_str = p) =>
            \A r \in UNION ({update_experiment_notes(directories, experiments, p, n) :
                                 n \in NotesDicts}
                            \cup {add_experiment_data(directories, experiments, p, k, v) :
                                     k \in DataKeys, v \in NotesValues}
                            \cup {add_experiment_note(directories, experiments, p, k, v) :
                                     k \in NotesKeys, v \in NotesValues}) :
                /\ r.D = directories /\ r.E = experiments
                /\ (p # Root /\ p \notin HeldPaths) => r.res = "NotFoundError"

Relocated(C, src, dest) ==
    {d \in C : ~AtOrUnder(src, d.path_str)}
        \cup {[d EXCEPT !.path_str = dest \o SubSeq(d.path_str, Len(src) + 1,
                                                   Len(d.path_str))] :
                d \in {x \in C : AtOrUnder(src, x.path_str)}}

\* C12: for every src other than the root without a wildcard and every dest,
\* after move(src, dest) completes each document whose path was src or
\* src + "/" + suffix has the path dest or dest + "/" + suffix, every other
\* document is as it was, and no document has a path equal to src or
\* prefixed by src + "/".
C12_MoveRewrites ==
    \A src \in {q \in ProbePaths : q # Root /\ ~EndsWith(q, <<"/", "*">>)} :
        \A dest \in MoveDestPaths :
            \A r \in move(directories, experiments, src, dest) :
                r.res = "ok" =>
                    /\ r.D = Relocated(directories, src, dest)
                    /\ r.E = Relocated(experiments, src, dest)
                    /\ \A d \in r.D \cup r.E : ~AtOrUnder(src, d.path_str)

\* C12, as far as it holds: for every dest the documents at or under src are
\* rewritten as claimed and the others kept; none is left at or under src when
\* dest is neither at or below src nor an ancestor of src.
C12_MoveRewritesOutside ==
    \A src \in {q \in ProbePaths : q # Root /\ ~EndsWith(q, <<"/", "*">>)} :
        \A dest \in MoveDestPaths :
            \A r \in move(directories, experiments, src, dest) :
                r.res = "ok" =>
                    /\ r.D = Relocated(directories, src, dest)
                    /\ r.E = Relocated(experiments, src, dest)
                    /\ (~AtOrUnder(src, dest) /\ ~AtOrUnder(dest, src)) =>
                          \A d \in r.D \cup r.E : ~AtOrUnder(src, d.path_str)

\* dest/<rest>, written normally: the root contributes no second slash
Below(dest, rest) == IF dest = Root THEN <<"/">> \o rest ELSE dest \o <<"/">> \o rest

\* after the wildcard move r of the children of dir to dest: every document
\* that was at or under a direct child of dir is the same document at
\* dest/<the path it had below dir>, the document of dir is kept, and
\* list_dir(dir) is empty
WildcardMoved(r, dir, dest) ==
    /\ r.res = "ok"
    /\ \A c \in Docs : DirectChild(dir, c.path_str) =>
          \A x \in Docs : AtOrUnder(c.path_str, x.path_str) =>
              \E y \in r.D \cup r.E :
                  /\ y.id = x.id /\ y.type = x.type
                  /\ y.path_str =
                        Below(dest, SubSeq(x.path_str,
                                           Len(Below(dir, <<>>)) + 1, Len(x.path_str)))
    /\ \A d \in directories : d.path_str = dir => d \in r.D
    /\ list_dir(r.D, r.E, dir).res = "ok"
    /\ list_dir(r.D, r.E, dir).ret = <<>>

\* C13: move(s + "/*", dest) requires s and dest to be directories (dest may
\* be the root) and otherwise raises and changes nothing; on success every
\* former direct child of s, with its subtree, is at the normal path
\* dest/<name>, s itself remains and list_dir(s) is empty.
C13_WildcardMove ==
    \A dir \in ProbePaths : \A dest \in MoveDestPaths :
        \A r \in move(directories, experiments, dir \o <<"/", "*">>, dest) :
            IF IsDirectory(dir) /\ IsDirectory(dest)
            THEN WildcardMoved(r, dir, dest)
            ELSE /\ r.res # "ok"
                 /\ r.D = directories /\ r.E = experiments

\* C13, as far as it holds: the same for every dest that is not the root and
\* not s or below s.
C13_WildcardMoveOutside ==
    \A dir \in ProbePaths : \A dest \in MoveDestPaths :
        \A r \in move(directories, experiments, dir \o <<"/", "*">>, dest) :
            IF IsDirectory(dir) /\ IsDirectory(dest)
            THEN (dest # Root /\ ~AtOrUnder(dir, dest)) => WildcardMoved(r, dir, dest)
            ELSE /\ r.res # "ok"
                 /\ r.D = directories /\ r.E = experiments

\* C14: delete(path) and move(src, dest) raise PathError and change no
\* document whenever the path (the src) has a "*" that is not its final
\* standalone segment, whether or not it ends in "/*".
C14_WildcardPlacement ==
    \A p \in WildcardMisusePaths :
        /\ LET r == delete(directories, experiments, p)
           IN  /\ r.res = "PathError"
               /\ r.D = directories /\ r.E = experiments
        /\ \A dest \in MoveDestPaths :
              \A r \in move(directories, experiments, p, dest) :
                  /\ r.res = "PathError"
                  /\ r.D = directories /\ r.E = experiments

\* C14, as far as it holds: such a path changes no document, and it raises
\* PathError when it ends in "/*".
C14_WildcardMisuseChangesNothing ==
    \A p \in WildcardMisusePaths :
        /\ LET r == delete(directories, experiments, p)
           IN  /\ EndsWith(p, <<"/", "*">>) => r.res = "PathError"
               /\ r.D = directories /\ r.E = experiments
        /\ \A dest \in MoveDestPaths :
              \A r \in move(directories, experiments, p, dest) :
                  /\ EndsWith(p, <<"/", "*">>) => r.res = "PathError"
                  /\ r.D = directories /\ r.E = experiments

\* delete(p) run again on every store an interrupted delete(p) may leave:
\* no error, and the store one uninterrupted run ends in
DeleteRerunnable(p) ==
    LET full == delete(directories, experiments, p)
    IN  full.res = "ok" =>
            \A st \in delete_interrupted(directories, experiments, p) :
                LET again == delete(st.D, st.E, p)
                IN  /\ again.res = "ok"
                    /\ again.D = full.D /\ again.E = full.E

\* move(src, dest) run again on every store an interrupted move(src, dest)
\* may leave: no error, the documents already rewritten are left as they
\* are, and the store is the one an uninterrupted run ends in
MoveRerunnable(src, dest) ==
    \A full \in move(directories, experiments, src, dest) :
        full.res = "ok" =>
            \A st \in move_interrupted(directories, experiments, src, dest) :
                \A again \in move(st.D, st.E, src, dest) :
                    /\ again.res = "ok"
                    /\ \A d \in (st.D \cup st.E) \ Docs : d \in again.D \cup again.E
                    /\ again.D = full.D /\ again.E = full.E

\* C15: delete and move, plain and wildcard, are safely re-runnable after a
\* store failure that interrupts them after any number of their writes, and
\* a second delete(p) after a completed one changes nothing.
C15_Rerunnable ==
    /\ \A p \in FailDeletePaths \cup {q \in HeldPaths : q # Root} :
          /\ DeleteRerunnable(p)
          /\ LET full == delete(directories, experiments, p)
                 second == delete(full.D, full.E, p)
             IN  full.res = "ok" =>
                    /\ second.res = "ok"
                    /\ second.D = full.D /\ second.E = full.E
    /\ \A src \in FailMoveSrcPaths \cup {q \in HeldPaths : q # Root} :
          \A dest \in FailMoveDestPaths : MoveRerunnable(src, dest)

\* C15, as far as it holds: the plain delete(p) always, a second delete, plain
\* or wildcard, after a completed one, and the plain move(src, dest) to a dest
\* that is neither at or below src nor an ancestor of src.
C15_PlainRerunnable ==
    /\ \A p \in {q \in FailDeletePaths \cup HeldPaths : ~EndsWith(q, <<"/", "*">>)} :
          DeleteRerunnable(p)
    /\ \A p \in FailDeletePaths \cup HeldPaths :
          LET full == delete(directories, experiments, p)
              second == delete(full.D, full.E, p)
          IN  full.res = "ok" =>
                 /\ second.res = "ok"
                 /\ second.D = full.D /\ second.E = full.E
    /\ \A src \in {q \in HeldPaths : q # Root /\ ~EndsWith(q, <<"/", "*">>)} :
          \A dest \in {q \in FailMoveDestPaths :
                          ~AtOrUnder(src, q) /\ ~AtOrUnder(q, src)} :
              MoveRerunnable(src, dest)

(***************************************************************************)
(* C16: get_experiments(path, recursive) returns, when path is exactly an  *)
(* experiment, that single experiment; when path is a directory, exactly   *)
(* the experiments that are direct children of path (recursive = False) or *)
(* exactly the experiments at any depth below path (recursive = True),     *)
(* intersected with the optional filter and truncated to at most limit     *)
(* results; directories are never returned; when path is neither, it fails *)
(* with NotFoundError.                                                     *)
(***************************************************************************)
\* the experiments the claim names for a directory path and a filter
Expected(path, recursive, name) ==
    {Fetched(e) : e \in {x \in experiments :
        /\ IF recursive THEN StrictlyUnder(path, x.path_str)
                        ELSE DirectChild(path, x.path_str)
        /\ Matches(Filter(name), x)}}

GetExperimentsAsClaimed(path, recursive, name, limit) ==
    \A r \in get_experiments(directories, experiments, path, recursive, Filter(name), limit) :
        IF \E e \in experiments : e.path_str = path
        THEN /\ r.res = "ok"
             /\ \E e \in experiments : e.path_str = path /\ r.ret = {Fetched(e)}
        ELSE IF IsDirectory(path)
        THEN /\ r.res = "ok"
             /\ r.ret \subseteq Expected(path, recursive, name)
             /\ \A x \in r.ret : x.type = "experiment"
             /\ IF limit = 0 \/ Cardinality(Expected(path, recursive, name)) <= limit
                THEN r.ret = Expected(path, recursive, name)
                ELSE Cardinality(r.ret) = limit
        ELSE r.res = "NotFoundError"

C16_GetExperiments ==
    \A path \in NotesPaths : \A recursive \in BOOLEAN :
        \A name \in FilterNames : \A limit \in Limits :
            GetExperimentsAsClaimed(path, recursive, name, limit)

\* the same with the filters whose keys are none of the path query's keys
C16_GetExperimentsOtherKeys ==
    \A path \in NotesPaths : \A recursive \in BOOLEAN :
        \A name \in {"none", "note", "in"} : \A limit \in Limits :
            GetExperimentsAsClaimed(path, recursive, name, limit)

(***************************************************************************)
(* C17: range expansion of a path containing $(a-b) with integers a <= b   *)
(* yields one path per integer a..b inclusive, in ascending order, each    *)
(* with the placeholder replaced by the number and the text before and     *)
(* after it unchanged; a path with several placeholders expands to the     *)
(* full Cartesian product of their values; a path without placeholders is  *)
(* returned as is, and an empty input list yields an empty list.           *)
(***************************************************************************)
\* the placeholder $(a-b) as it is written
RangePlaceholder(a, b) ==
    <<"$", "(">> \o IntToStr(a) \o <<"-">> \o IntToStr(b) \o <<")">>

\* paths with one placeholder: text, $(lo-hi), text
OneRange ==
    {[pre |-> p, lo |-> a, hi |-> b, suf |-> s] :
        p \in {<<"/", "a", "/">>}, a \in 1..3, b \in 1..3, s \in {<<>>, <<"b">>}}

\* paths with two placeholders: text, $(lo1-hi1), text, $(lo2-hi2)
TwoRanges ==
    {[pre |-> p, lo1 |-> a, hi1 |-> b, mid |-> m, lo2 |-> c, hi2 |-> d] :
        p \in {<<"/", "a">>}, a \in 1..2, b \in 1..2, m \in {<<"/">>},
        c \in 1..2, d \in 1..2}

\* the paths the claim names for a path with one placeholder, in order
ValuesInOrder(t) ==
    [i \in 1..(t.hi - t.lo + 1) |-> t.pre \o IntToStr(t.lo + i - 1) \o t.suf]

\* the paths the claim names for a path with two placeholders
Product(t) ==
    {t.pre \o IntToStr(i) \o t.mid \o IntToStr(j) : i \in t.lo1..t.hi1, j \in t.lo2..t.hi2}

C17_RangeExpansion ==
    output.called =>
        /\ input.paths = <<>> => output.value = <<>>
        /\ \A p \in PathTemplates :
              ~HasChar(p, "$") /\ input.paths = <<p>> => output.value = <<p>>
        /\ \A t \in OneRange :
              /\ t.lo <= t.hi
              /\ input.paths = <<t.pre \o RangePlaceholder(t.lo, t.hi) \o t.suf>>
              => output.value = ValuesInOrder(t)
        /\ \A t \in TwoRanges :
              /\ t.lo1 <= t.hi1 /\ t.lo2 <= t.hi2
              /\ input.paths = <<t.pre \o RangePlaceholder(t.lo1, t.hi1)
                                  \o t.mid \o RangePlaceholder(t.lo2, t.hi2)>>
              => /\ Range(output.value) = Product(t)
                 /\ Len(output.value) = Cardinality(Product(t))
        /\ \A t \in OneRange : \A u \in OneRange :
              /\ t.lo <= t.hi /\ u.lo <= u.hi
              /\ input.paths = <<t.pre \o RangePlaceholder(t.lo, t.hi) \o t.suf,
                                 u.pre \o RangePlaceholder(u.lo, u.hi) \o u.suf>>
              => output.value = ValuesInOrder(t) \o ValuesInOrder(u)

\* "/a$(1-2)/$(1-2)" has been expanded to its four paths
C17_Witness ==
    /\ output.called
    /\ input.paths = << <<"/", "a", "$", "(", "1", "-", "2", ")", "/",
                          "$", "(", "1", "-", "2", ")">> >>
    /\ Len(output.value) = 4
    /\ <<"/", "a", "2", "/", "1">> \in Range(output.value)

(***************************************************************************)
(* C18: range expansion of a path containing a comma-separated list        *)
(* $(a,b,c), with optional whitespace around the values, yields one path   *)
(* per listed value in list order: "/a/$(1,3,5)" and "/a/$(1, 3, 5)" both  *)
(* expand to ["/a/1", "/a/3", "/a/5"].                                     *)
(***************************************************************************)
C18_ListExpansion ==
    /\ output.called
    /\ \/ input.paths = << <<"/", "a", "/", "$", "(", "1", ",", "3", ",", "5", ")">> >>
       \/ input.paths = << <<"/", "a", "/", "$", "(", "1", ",", " ", "3", ",", " ", "5", ")">> >>
    => output.value = << <<"/", "a", "/", "1">>, <<"/", "a", "/", "3">>,
                         <<"/", "a", "/", "5">> >>

\* what the helper does with a comma-separated list: the path comes back as
\* it was written
C18_ListLeftVerbatim ==
    \A p \in PathTemplates :
        output.called /\ input.paths = <<p>> /\ HasChar(p, ",") => output.value = <<p>>

(***************************************************************************)
(* C19: the bulk path-list helper deduplicates: the expansion of a list of *)
(* path templates contains each resulting path at most once, also when two *)
(* templates or a repeated value produce the same path, so each matching   *)
(* experiment is returned exactly once; expanded paths that name no        *)
(* document contribute no result and raise no error.                       *)
(***************************************************************************)
\* the paths each list of ListPaths names, written out
NamedPaths(paths) ==
    LET a0 == <<"/", "a", "/", "0">>
        a1 == <<"/", "a", "/", "1">>
        a2 == <<"/", "a", "/", "2">>
        a3 == <<"/", "a", "/", "3">>
        ab == <<"/", "a", "/", "b">>
    IN  CASE paths = <<a0, ab>> -> {a0, ab}
          [] paths = <<a0, a0>> -> {a0}
          [] paths = << <<"/", "a", "/", "$", "(", "0", "-", "1", ")">> >> -> {a0, a1}
          [] paths = << <<"/", "a", "/", "$", "(", "0", "-", "1", ")">>,
                        <<"/", "a", "/", "$", "(", "1", "-", "2", ")">> >> -> {a0, a1, a2}
          [] paths = << <<"/", "a", "/", "$", "(", "2", "-", "3", ")">> >> -> {a2, a3}
          [] paths = << <<"/", "$", "(", "0", "-", "1", ")">>, ab >> ->
                {<<"/", "0">>, <<"/", "1">>, ab}
          [] paths = << <<"/", "a", "/", "$", "(", "0", ",", "0", ")">> >> -> {a0}
          [] paths = << <<"a", "/", "0">>, <<"/", "a", "/", "0", "/">> >> -> {a0}
          [] paths = <<>> -> {}

\* no element of the list occurs twice
NoDuplicates(l) == \A i \in 1..Len(l) : \A j \in 1..Len(l) : l[i] = l[j] => i = j

\* the helper returns the experiments at the named paths and nothing else
ReturnsNamed(paths) ==
    \A r \in get_experiments_in_list(directories, experiments, paths) :
        /\ r.res = "ok"
        /\ r.ret = {Fetched(e) : e \in {x \in experiments : x.path_str \in NamedPaths(paths)}}

C19_Deduplicates ==
    \A paths \in ListPaths :
        /\ NoDuplicates(expand_paths(paths))
        /\ ReturnsNamed(paths)

\* the same for the lists without a comma-separated placeholder, the result
\* alone
C19_RangeListsReturnNamed ==
    \A paths \in ListPaths :
        (\A i \in 1..Len(paths) : ~HasChar(paths[i], ",")) => ReturnsNamed(paths)

(***************************************************************************)
(* C20: split_path and join_path are round-trip inverses: for every path   *)
(* string p that split_path accepts, join_path(split_path(p)) = p, and for *)
(* every segment list s that join_path accepts,                            *)
(* split_path(join_path(s)) = s.                                           *)
(***************************************************************************)
C20_RoundTrip ==
    output.called /\ output.accepted =>
        /\ ~output.raised
        /\ input.kind = "path" => output.value = input.path
        /\ input.kind = "segments" => output.value = input.segments

\* the round trips that hold: of a normally written path whose wildcard, if
\* any, is its last segment alone, and of segments holding no separator
C20_NormalRoundTrip ==
    output.called =>
        /\ /\ input.kind = "path"
           /\ output.accepted
           /\ Normalized(input.path)
           /\ \A i \in 1..Len(input.path) :
                 input.path[i] = "*" => i = Len(input.path) /\ input.path[i - 1] = "/"
           => ~output.raised /\ output.value = input.path
        /\ /\ input.kind = "segments"
           /\ output.accepted
           /\ \A i \in 1..Len(input.segments) : ~HasChar(input.segments[i], "/")
           => ~output.raised /\ output.value = input.segments

(***************************************************************************)
(* C21: split_path, join_path and validate_path accept a path containing   *)
(* "*" only when "*" occurs exactly once, as the whole final segment; any  *)
(* path in which "*" is a non-final segment or is concatenated with other  *)
(* characters inside a segment, such as "/a/*/c", "/a/b*c", "/a*/*" or     *)
(* "/*/*", is rejected with PathError.                                     *)
(***************************************************************************)
\* the path string holds a "*" that is not its only one and its whole final segment
WildcardMisplaced(p) ==
    /\ HasChar(p, "*")
    /\ ~(/\ Cardinality({i \in 1..Len(p) : p[i] = "*"}) = 1
         /\ EndsWith(p, <<"/", "*">>))

\* the same of a list of segments
WildcardMisplacedIn(segs) ==
    \E i \in 1..Len(segs) :
        HasChar(segs[i], "*") /\ (i # Len(segs) \/ segs[i] # <<"*">>)

C21_WildcardRejected ==
    /\ input.kind = "path" /\ WildcardMisplaced(input.path)
       => SplitPathRaises(input.path) /\ ValidatePathRaises(input.path)
    /\ input.kind = "segments" /\ WildcardMisplacedIn(input.segments)
       => JoinPathRaises(input.segments)

\* what holds: join_path and validate_path reject every misplaced wildcard,
\* split_path every one in a path that does not end with "/*"
C21_WildcardRejectedByJoin ==
    /\ input.kind = "path" /\ WildcardMisplaced(input.path)
       => /\ ValidatePathRaises(input.path)
          /\ ~EndsWith(input.path, <<"/", "*">>) => SplitPathRaises(input.path)
    /\ input.kind = "segments" /\ WildcardMisplacedIn(input.segments)
       => JoinPathRaises(input.segments)

(***************************************************************************)
(* C22: after every cache put (in a single process, caching enabled), the  *)
(* total size of the entries under the cache root is at or below the       *)
(* configured maximum, or the cache is empty; eviction removes entries     *)
(* only while the total is above the maximum and always terminates.        *)
(***************************************************************************)
\* the step removes a file of the cache
Evicts == DOMAIN cache' # DOMAIN cache /\ DOMAIN cache' \subseteq DOMAIN cache

C22_CacheBounded ==
    /\ [](pc[1].at = "idle" => TotalSize(cache) <= max_size \/ cache = Nothing)
    /\ [][Evicts => TotalSize(cache) > max_size]_vars
    /\ (pc[1].at \in {"manage", "evict"} ~> pc[1].at = "idle")

\* a put has ended after eviction brought the total from above the maximum
\* to it or below: the loop is about to leave with files removed
C22_Witness ==
    /\ pc[1].at = "evict"
    /\ pc[1].total_size <= max_size
    /\ Len(pc[1].files) + 2 <= Cardinality(FileIds)
    /\ cache # Nothing

(***************************************************************************)
(* C27: cache eviction never removes an entry while two or more entries    *)
(* with a strictly older access time are still present: each evicted entry *)
(* is one of the two least-recently-accessed entries at that moment, where *)
(* a cache hit refreshes the entry's access time before eviction ordering  *)
(* is next computed.                                                       *)
(***************************************************************************)
\* the files of the cache accessed strictly before f was
StrictlyOlder(f) == {g \in DOMAIN cache : cache[g].atime < cache[f].atime}

C27_EvictsOneOfTwoOldest ==
    [][/\ \A f \in DOMAIN cache \ DOMAIN cache' : Cardinality(StrictlyOlder(f)) <= 1
       /\ \A c \in DOMAIN pc :
             pc[c].at = "touch" /\ pc'[c].at = "read"
             => \A g \in DOMAIN cache : cache'[pc[c].file_id].atime >= cache[g].atime]_vars

\* an eviction is under way in a cache of three files in which a hit has made
\* file 1, written before file 2, the more recently accessed of the two
C27_Witness ==
    /\ pc[1].at = "evict"
    /\ pc[1].total_size > max_size
    /\ Len(pc[1].files) = 3
    /\ pc[1].files[1][2] = 2
    /\ pc[1].files[2][2] = 1
    /\ cache[2].atime < cache[1].atime

(***************************************************************************)
(* C29: with two processes sharing one cache root, a cache read of payload *)
(* id that runs concurrently with another process's put of the same id or  *)
(* with another process's eviction returns either the complete bytes of    *)
(* that payload or a miss - never a partial or empty payload - and neither *)
(* the read nor a concurrent eviction raises an error because the other    *)
(* process removed or is still writing a file.                             *)
(***************************************************************************)
\* the read that has just returned, if one has: the client and the file_id
ReadReturns(c, file_id) ==
    pc[c].at = "read" /\ pc[c].file_id = file_id /\ pc'[c].at = "idle"

C29_SharedCacheReads ==
    [][\A c \in DOMAIN pc :
          /\ \A file_id \in SharedFileIds :
                ReadReturns(c, file_id)
                => /\ pc'[c].ret.kind \in {"data", "miss"}
                   /\ pc'[c].ret.kind = "data" => pc'[c].ret.data = CachedBytes(file_id)
          /\ pc[c].at = "evict" => pc'[c].ret.kind # "raised"]_vars

\* what holds of a read in the one-process cache: the complete bytes
C29_OneProcessReads ==
    [][\A file_id \in FileIds :
          ReadReturns(1, file_id)
          => pc'[1].ret.kind = "data" /\ pc'[1].ret.data = CachedBytes(file_id)]_vars

(***************************************************************************)
(* C28: when two clients run create_dir and/or create_experiment (named or *)
(* auto-named) concurrently against the same store, with each individual   *)
(* store call atomic and the calls of the two clients interleaved          *)
(* arbitrarily, no two documents end up with the same path string and      *)
(* every auto-named experiment gets a name distinct from every other       *)
(* document in its directory.                                              *)
(***************************************************************************)
C28_ConcurrentCreatesDistinct ==
    \A x \in directories \cup experiments : \A y \in directories \cup experiments :
        x.path_str = y.path_str => x = y

\* what holds: the checks of a create that starts while both clients are
\* outside every call and the paths are distinct pass only for a path that no
\* document has
C28_ChecksSeeNoDocument ==
    [][\A c \in DOMAIN pc :
          /\ \A o \in DOMAIN pc : pc[o].at = "idle"
          /\ C28_ConcurrentCreatesDistinct
          /\ pc'[c].at # "idle"
          => \A d \in directories \cup experiments : d.path_str # pc'[c].path]_vars

\* C23: a descriptor of the local or GridFS tier whose backing file or object
\* is there deserializes without error to the array it was made from; a
\* cleanup of such a descriptor leaves its backing file or object absent; a
\* cleanup of a descriptor whose backing is already gone raises nothing and
\* changes no file, object or cache file
C23_LargeArrayRoundTrip ==
    [][/\ input'.called /\ input'.op = "deserialize" /\ External(input'.desc)
          /\ input'.existed
          => output'.res = "ok" /\ output'.ret = input'.arr
       /\ input'.called /\ input'.op = "cleanup" /\ External(input'.desc)
          => /\ output'.res = "ok"
             /\ LocatorOf(input'.desc) \notin DOMAIN local_files'
             /\ LocatorOf(input'.desc) \notin DOMAIN gridfs'
             /\ ~input'.existed => UNCHANGED <<local_files, gridfs, cache>>]_vars

\* a second cleanup of a GridFS descriptor has returned
C23_Witness ==
    /\ input.called /\ input.op = "cleanup"
    /\ input.desc.storage_type = "gridfs"
    /\ ~input.existed
    /\ output.res = "ok"

\* C24: no cache file is kept for a GridFS descriptor whose object has been
\* cleaned up
C24_CleanupEmptiesCache ==
    \A h \in pc[1].held :
        h.desc.storage_type = "gridfs" /\ h.desc.file_id \notin DOMAIN gridfs
        => h.desc.file_id \notin DOMAIN cache

\* what holds: a cache file is there only for an id that a GridFS descriptor
\* held by the client has
C24_CacheFilesOfDescriptors ==
    \A f \in DOMAIN cache :
        \E h \in pc[1].held : h.desc.storage_type = "gridfs" /\ h.desc.file_id = f

\* C24, second half: a deserialize of a cleaned-up GridFS descriptor is not
\* answered with an array
C24_NoReadAfterCleanup ==
    input.called /\ input.op = "deserialize" /\ input.desc.storage_type = "gridfs"
    /\ ~input.existed
    => output.res # "ok"

\* the paths a delete(path) matches: the subtree of path, or of the children
\* of the directory of a wildcard
MatchedByDelete(path, s) ==
    IF EndsWith(path, <<"/", "*">>) THEN StrictlyUnder(DropLast(path, 2), s)
    ELSE AtOrUnder(path, s)

\* a delete removes documents in this step
DeleteRemoves ==
    pc[1].at # "idle" /\ (experiments' # experiments \/ directories' # directories)

\* every external descriptor of e has been through cleanup: its backing is
\* gone, or its cleanup failed in this call
CleanedUp(e) ==
    \A kv \in e.data :
        External(kv[2]) => ~Backed(kv[2]) \/ kv[2] \in pc[1].failed

\* the delete that is under way returns in this step
DeleteCompletes ==
    pc[1].at # "idle" /\ pc'[1].at = "idle" /\ output'.res = "ok"

\* C26: when a delete removes a document, every experiment the call matches
\* has been through cleanup; a delete that returns leaves no matched
\* document, whatever the cleanup steps did; the backing of every external
\* descriptor of an experiment it removes is gone
C26_DeleteCleansUpFirst ==
    [][/\ DeleteRemoves
          => \A e \in experiments : MatchedByDelete(pc[1].path, e.path_str) => CleanedUp(e)
       /\ DeleteCompletes
          => \A d \in directories' \cup experiments' : ~MatchedByDelete(pc[1].path, d.path_str)
       /\ DeleteRemoves
          => \A e \in experiments \ experiments' :
                \A kv \in e.data : External(kv[2]) => ~Backed(kv[2])]_vars

\* C26 as the code has it: when a delete removes the documents under a path
\* (the path of the call, or one child of a wildcard), every experiment under
\* that path has been through cleanup; a delete that returns leaves no
\* matched document; the backing of an external descriptor of a removed
\* experiment is gone unless its cleanup failed
C26_DeleteCleansUpEachPath ==
    [][/\ DeleteRemoves
          => \A e \in experiments :
                AtOrUnder(Head(pc[1].queue), e.path_str) => CleanedUp(e)
       /\ DeleteCompletes
          => \A d \in directories' \cup experiments' : ~MatchedByDelete(pc[1].path, d.path_str)
       /\ DeleteRemoves
          => \A e \in experiments \ experiments' :
                \A kv \in e.data :
                    External(kv[2]) => ~Backed(kv[2]) \/ kv[2] \in pc[1].failed]_vars

\* a wildcard delete has removed the experiments of its second child, after
\* the cleanup of a descriptor had failed
C26_Witness ==
    /\ pc[1].at = "directories"
    /\ pc[1].path = <<"/", "a", "/", "*">>
    /\ Len(pc[1].queue) = 1
    /\ pc[1].failed # {}
    /\ experiments = {}

\* C30: every local payload file and every GridFS object is the backing of
\* an array descriptor in the data of a stored experiment
C30_NoPayloadLeak ==
    /\ \A f \in DOMAIN local_files :
          \E d \in DescriptorsOf(experiments) : d.storage_type = "local" /\ d.file_path = f
    /\ \A f \in DOMAIN gridfs :
          \E d \in DescriptorsOf(experiments) : d.storage_type = "gridfs" /\ d.file_id = f

\* C30, the case it names: an add_experiment_data that replaces an external
\* descriptor leaves the backing of the replaced descriptor absent
C30_ReplacedPayloadReleased ==
    [][output'.called /\ output'.op = "add_experiment_data" /\ output'.res = "ok"
       /\ pc[1].at = "idle" /\ pc'[1].at = "idle"
       => \A d \in DescriptorsOf(experiments) \ DescriptorsOf(experiments') :
             External(d) => LocatorOf(d) \notin DOMAIN local_files' \cup DOMAIN gridfs']_vars

\* the part of a version string before its first dot
MajorOf(v) == SubSeq(v, 1, FindSub(v, <<".">>) - 1)

\* C25: a Database is held only by a process whose major version equals the
\* recorded one, and a constructor that reaches the comparison with another
\* major raises; the collections change only through such a Database; a
\* recorded version never changes, and the first to be recorded is the
\* running version of the process that found no sentinel
C25_VersionGate ==
    [][/\ \A c \in DOMAIN pc :
             /\ pc'[c].at = "open"
                => version' # NoSentinel /\ MajorOf(version') = MajorOf(pc'[c].running)
             /\ pc[c].at = "check" /\ pc'[c].at # "check"
                /\ MajorOf(version) # MajorOf(pc[c].running)
                => pc'[c].at = "refused"
       /\ directories' # directories \/ experiments' # experiments
          => \E c \in DOMAIN pc :
                pc[c].at = "open" /\ MajorOf(version) = MajorOf(pc[c].running)
       /\ version # NoSentinel => version' = version
       /\ version = NoSentinel /\ version' # NoSentinel
          => \E c \in DOMAIN pc : pc[c].at = "insert" /\ version' = pc[c].running]_vars

\* process 1, running 10.0, has been refused on a database that process 2
\* recorded as 1.0 and works on
C25_Witness ==
    /\ pc[1].at = "refused"
    /\ pc[1].running = <<"1", "0", ".", "0">>
    /\ version = <<"1", ".", "0">>
    /\ pc[2].at = "open"
    /\ directories # {}

====
